---------------------------- MODULE Spec2Model ----------------------------
(***************************************************************************)
(* ioBroker.nebenkosten-monitor: one utility channel of the adapter        *)
(* (consumption accrual, cost computation, billing-period close, periodic  *)
(* resets, history import, restart) over the ioBroker state store.         *)
(*                                                                         *)
(* Units.  Quantities (meter readings, consumption, volumes, offset,       *)
(* initial reading, adjustment) are integers in 1/1000 of the unit, money  *)
(* is in cent, prices are cent per unit, a timestamp is the number of      *)
(* minutes since 01.01.2024 00:00 local time.  Values that the code holds  *)
(* unrounded are exact rationals [n, d].                                   *)
(*                                                                         *)
(* An asynchronous function is a sequence of segments, one per awaited     *)
(* state-store call: the operators ...Step perform the awaited call at     *)
(* a.pc and the synchronous code that follows it.  RunToEnd runs a handler *)
(* to completion (events handled one at a time); the interleaved           *)
(* specifications execute one segment per step.                            *)
(***************************************************************************)
EXTENDS Integers, Sequences, FiniteSets, TLC

(* ------------------------------ bounds --------------------------------- *)
MaxEvents == 4
MaxInflight == 2

(* ------------------------- state-store values -------------------------- *)
\* A state value: a number, a boolean (v = 1, 0), a string (v = 0: empty) or
\* no state at all (getStateAsync resolves to null).
Num(n) == [t |-> "num", v |-> n]
Bool(b) == [t |-> "bool", v |-> IF b THEN 1 ELSE 0]
Str(c) == [t |-> "str", v |-> c]
Null == [t |-> "null", v |-> 0]

IsNum(x) == x.t = "num"
\* JavaScript truthiness of state.val (x?.val)
Truthy(x) == x.t # "null" /\ x.v # 0
\* typeof x?.val === 'number' ? x.val : 0
NumOr0(x) == IF IsNum(x) THEN x.v ELSE 0
\* x?.val || 0
ValOr0(x) == IF Truthy(x) THEN x ELSE Num(0)

(* ----------------------------- arithmetic ------------------------------ *)
\* Math.round(n / d) for d > 0: floor(n/d + 1/2)
RoundDiv(n, d) == (2 * n + d) \div (2 * d)

\* exact rationals n/d, d > 0
RECURSIVE GCD(_, _)
GCD(x, y) == IF y = 0 THEN x ELSE GCD(y, x % y)
Abs(x) == IF x < 0 THEN -x ELSE x

Rat(n, d) == [n |-> n, d |-> d]
Reduce(a) == LET g == GCD(Abs(a.n), a.d) IN [n |-> a.n \div g, d |-> a.d \div g]
RatAdd(a, b) ==
    LET g == GCD(a.d, b.d)
    IN  Reduce([n |-> a.n * (b.d \div g) + b.n * (a.d \div g), d |-> (a.d \div g) * b.d])
RatNeg(a) == a.n < 0

\* variant: truncates instead of rounding
RoundToDecimalsBug(q, decimals) ==
    IF decimals = 2 THEN 10 * (q.n \div (10 * q.d)) ELSE q.n \div q.d

\* calculator.roundToDecimals on a quantity q (a rational number of 1/1000
\* units): the result in 1/1000 units.  decimals is 2 or 3.
RoundToDecimals(q, decimals) ==
    IF decimals = 2 THEN 10 * RoundDiv(q.n, 10 * q.d) ELSE RoundDiv(q.n, q.d)

\* variant: cuts the amount off below the cent
RoundMoneyDown(c) == c.n \div c.d

\* calculator.roundToDecimals(x, 2) on a money amount (a rational number of
\* cent): the result in cent.
RoundMoney(c) == RoundDiv(c.n, c.d)

(* ------------------------------- dates --------------------------------- *)
EpochYear == 2024
MinutesPerDay == 1440
Noon == 720

IsLeap(y) == (y % 4 = 0 /\ y % 100 # 0) \/ y % 400 = 0
DaysInYear(y) == IF IsLeap(y) THEN 366 ELSE 365
\* month m0 is 0-based, as Date.getMonth()
DaysInMonth(y, m0) ==
    IF m0 = 1 THEN (IF IsLeap(y) THEN 29 ELSE 28)
    ELSE IF m0 \in {3, 5, 8, 10} THEN 30 ELSE 31

RECURSIVE DaysBeforeYear(_)
DaysBeforeYear(y) ==
    IF y = EpochYear THEN 0
    ELSE IF y > EpochYear THEN DaysBeforeYear(y - 1) + DaysInYear(y - 1)
    ELSE DaysBeforeYear(y + 1) - DaysInYear(y)

RECURSIVE DaysBeforeMonth(_, _)
DaysBeforeMonth(y, m0) ==
    IF m0 = 0 THEN 0 ELSE DaysBeforeMonth(y, m0 - 1) + DaysInMonth(y, m0 - 1)

\* new Date(year, month0, day, 0, minutes).getTime(): month and day overflow
\* roll over as in the Date constructor.
MkTime(y, m0, d, minutes) ==
    LET yy == y + (m0 \div 12)
        mm == m0 % 12
    IN  (DaysBeforeYear(yy) + DaysBeforeMonth(yy, mm) + (d - 1)) * MinutesPerDay + minutes

RECURSIVE YearOfDay(_, _)
YearOfDay(day, y) ==
    IF day < DaysBeforeYear(y) THEN YearOfDay(day, y - 1)
    ELSE IF day >= DaysBeforeYear(y + 1) THEN YearOfDay(day, y + 1)
    ELSE y

RECURSIVE MonthOfDay(_, _, _)
MonthOfDay(rest, y, m0) ==
    IF rest < DaysInMonth(y, m0) THEN m0 ELSE MonthOfDay(rest - DaysInMonth(y, m0), y, m0 + 1)

\* new Date(ts): getFullYear(), getMonth() (0-based), getDate(), minutes of the day
DateOf(ts) ==
    LET day == ts \div MinutesPerDay
        y == YearOfDay(day, EpochYear)
        rest == day - DaysBeforeYear(y)
        m0 == MonthOfDay(rest, y, 0)
    IN  [year |-> y, month |-> m0, date |-> rest - DaysBeforeMonth(y, m0) + 1,
         minutes |-> ts % MinutesPerDay]

\* A configured date string is the sequence of its '.'-separated parts, each
\* part the integer parseInt reads from it, NaN for a part without digits;
\* << >> is the empty (unset) string.
NaN == -1

\* variant: accepts a date with fewer than three parts
ParseGermanDateNoLength(dateStr) ==
    IF dateStr = << >> THEN Null
    ELSE IF \E i \in 1..Len(dateStr) : dateStr[i] = NaN THEN Null
    ELSE LET y == IF Len(dateStr) >= 3 THEN dateStr[3] ELSE EpochYear
             m == IF Len(dateStr) >= 2 THEN dateStr[2] ELSE 1
         IN  Num(MkTime(IF y < 100 THEN y + 2000 ELSE y, m - 1, dateStr[1], Noon))

\* calculator.parseGermanDate: Null, or Num(timestamp) of the date at noon
ParseGermanDate(dateStr) ==
    IF dateStr = << >> THEN Null
    ELSE IF Len(dateStr) # 3 THEN Null
    ELSE IF dateStr[1] = NaN \/ dateStr[2] = NaN \/ dateStr[3] = NaN THEN Null
    ELSE LET year == IF dateStr[3] < 100 THEN dateStr[3] + 2000 ELSE dateStr[3]
         IN  Num(MkTime(year, dateStr[2] - 1, dateStr[1], Noon))


(* --------------------------- configuration ----------------------------- *)
\* this.adapter.config, restricted to the keys of one channel (the
\* `${configType}...` keys of the channel of type cfg.type).
DefaultBrennwert == 115
DefaultZZahl == 95

\* this.config.gasBrennwert || 11.5 (in 1/10), this.config.gasZahl || 0.95 (in 1/100)
Brennwert(cfg) == IF cfg.gasBrennwert # 0 THEN cfg.gasBrennwert ELSE DefaultBrennwert
ZZahl(cfg) == IF cfg.gasZahl # 0 THEN cfg.gasZahl ELSE DefaultZZahl

\* calculator.convertGasM3ToKWh(m3, brennwert, zZahl): m3 a rational number
\* of 1/1000 m3; the result a rational number of 1/1000 kWh.  The function
\* throws for m3 < 0, brennwert <= 0, zZahl <= 0 or zZahl > 1.
ConvertThrows(m3, cfg) ==
    RatNeg(m3) \/ Brennwert(cfg) <= 0 \/ ZZahl(cfg) <= 0 \/ ZZahl(cfg) > 100
ConvertGasM3ToKWh(m3, cfg) ==
    LET factor == Reduce(Rat(Brennwert(cfg) * ZZahl(cfg), 1000))
    IN  Reduce([n |-> m3.n * factor.n, d |-> m3.d * factor.d])

\* consumption * price: a quantity (rational, 1/1000 units) at a price in
\* cent per unit is a rational number of cent
Cost(q, price) == Reduce([n |-> q.n * price, d |-> q.d * 1000])

(* ------------------------------ activations ---------------------------- *)
\* The local variables of a running handler.
Loc0 ==
    [value |-> 0, now |-> 0, consumption |-> 0, consumptionM3 |-> 0, delta |-> 0,
     isHT |-> TRUE, rd |-> Null, rd2 |-> Null, rd3 |-> Null,
     daily |-> 0, monthly |-> 0, yearly |-> Rat(0, 1), adjustment |-> 0,
     dailyHT |-> 0, dailyNT |-> 0, monthlyHT |-> 0, monthlyNT |-> 0,
     yearlyHT |-> Rat(0, 1), yearlyNT |-> 0,
     dailyCost |-> Rat(0, 1), monthlyCost |-> Rat(0, 1), yearlyCost |-> Rat(0, 1),
     months |-> 0, endReading |-> Null, year |-> 0,
     histYearly |-> Null, histTotal |-> Null, histBalance |-> Null,
     dailyValue |-> Null, daysRemaining |-> 0, periodEnd |-> 0,
     sendResult |-> "ok", ev |-> [id |-> "none", val |-> Null, ack |-> FALSE],
     records |-> << >>, years |-> << >>, customUnit |-> "", unit |-> "",
     yearsUpdated |-> << >>, details |-> << >>]

Activation(kind, entry) == [kind |-> kind, pc |-> entry, ret |-> << >>, loc |-> Loc0]

Goto(a, w, pc) == [a |-> [a EXCEPT !.pc = pc], w |-> w]
Call(a, w, entry, retPc) == [a |-> [a EXCEPT !.pc = entry, !.ret = <<retPc>> \o @], w |-> w]
Return(a, w) ==
    IF a.ret = << >> THEN [a |-> [a EXCEPT !.pc = "done"], w |-> w]
    ELSE [a |-> [a EXCEPT !.pc = Head(a.ret), !.ret = Tail(a.ret)], w |-> w]
\* a thrown error: caught by the try/catch of initializeUtility around its
\* handleSensorUpdate call (src/main.js:122-129), else the handler's promise rejects
Throw(a, w) ==
    IF \E i \in 1..Len(a.ret) : a.ret[i] = "iu_rDayStart"
    THEN LET i == CHOOSE i \in 1..Len(a.ret) : a.ret[i] = "iu_rDayStart"
         IN  [a |-> [a EXCEPT !.pc = "iu_rDayStart", !.ret = SubSeq(a.ret, i + 1, Len(a.ret))],
              w |-> w]
    ELSE [a |-> [a EXCEPT !.pc = "error", !.ret = << >>], w |-> w]

Rd(w, key) == w.store[key]
Wr(w, key, x) == [w EXCEPT !.store[key] = x]

(* ------------------------------ updateCosts ---------------------------- *)
\* variant: the month that has begun is not counted
MonthsSinceCompleted(now, anchor) ==
    LET n == DateOf(now)
        s == DateOf(anchor)
        m == (n.year - s.year) * 12 + (n.month - s.month)
    IN  IF m > 1 THEN m ELSE 1

\* variant: no lower bound of one month
MonthsSinceUnclamped(now, anchor) ==
    LET n == DateOf(now)
        s == DateOf(anchor)
    IN  (n.year - s.year) * 12 + (n.month - s.month) + 1

MonthsSince(now, anchor) ==
    LET n == DateOf(now)
        s == DateOf(anchor)
        m == (n.year - s.year) * 12 + (n.month - s.month) + 1
    IN  IF m > 1 THEN m ELSE 1

\* variant: the whole annual fee is due from the first month on
AnnualFeeWhole(l, cfg) == Rat(cfg.Jahresgebuehr, 1)

\* the fixed costs accrued over l.months months and the total yearly cost
AnnualFeeAccumulated(l, cfg) == Reduce(Rat(cfg.Jahresgebuehr * l.months, 12))
TotalFixCostsAccumulated(l, cfg) ==
    RatAdd(Rat(cfg.Grundgebuehr * l.months, 1), AnnualFeeAccumulated(l, cfg))
TotalYearlyCost(l, cfg) == RatAdd(l.yearlyCost, TotalFixCostsAccumulated(l, cfg))

\* variant: the costs are computed whatever the price
NoPriceConfiguredNever(cfg) == FALSE

\* src/lib/billingManager.js:36
NoPriceConfigured(cfg) == cfg.Preis = 0 /\ ~cfg.HtNtEnabled

\* BillingManager.updateCosts, the synchronous code at its entry and between
\* its awaited calls
UpdateCostsJunction(a, w) ==
    LET cfg == w.cfg
        l == a.loc
    IN  CASE a.pc = "uc_enter" ->
                IF NoPriceConfigured(cfg) THEN Return(a, w)
                ELSE Goto(a, w, "uc_rDaily")
          [] a.pc = "uc_costs" ->
                IF cfg.HtNtEnabled THEN Goto(a, w, "uc_rDailyHT")
                \* calculator.calculateCost throws on a negative consumption
                ELSE IF l.daily < 0 \/ l.monthly < 0 \/ RatNeg(l.yearly) THEN Throw(a, w)
                ELSE Goto([a EXCEPT !.loc.dailyCost = Cost(Rat(l.daily, 1), cfg.Preis),
                                    !.loc.monthlyCost = Cost(Rat(l.monthly, 1), cfg.Preis),
                                    !.loc.yearlyCost = Cost(l.yearly, cfg.Preis)],
                          w, "uc_months")
          [] a.pc = "uc_months" ->
                LET contractStart == ParseGermanDate(cfg.ContractStart)
                IN  IF cfg.ContractStart # << >> /\ contractStart # Null
                    THEN Goto([a EXCEPT !.loc.months = MonthsSince(w.now, contractStart.v)],
                              w, "uc_wDaily")
                    ELSE Goto(a, w, "uc_rLastYearStart")

\* variant: the yearly cost is written over the yearly total
YearlyCostOverTotal == "consumption.yearly"

\* src/lib/billingManager.js:172, the state the yearly consumption cost is
\* written to
YearlyCostState == "costs.yearly"

\* variant: the adjustment is left out of the HT bucket
YearlyHTUnadjusted(yearlyHT, adjustment, cfg) == yearlyHT

\* src/lib/billingManager.js:82-90: the adjustment goes into yearlyHT, for
\* gas converted to kWh
YearlyHTAdjusted(yearlyHT, adjustment, cfg) ==
    IF adjustment = 0 THEN yearlyHT
    ELSE IF cfg.type = "gas"
         THEN RatAdd(yearlyHT, ConvertGasM3ToKWh(Rat(adjustment, 1), cfg))
         ELSE RatAdd(yearlyHT, Rat(adjustment, 1))

\* BillingManager.updateCosts, one awaited state-store call each
UpdateCostsStep(a, w) ==
    LET cfg == w.cfg
        l == a.loc
    IN  CASE a.pc = "uc_rDaily" ->
                Goto([a EXCEPT !.loc.daily = NumOr0(Rd(w, "consumption.daily"))], w, "uc_rMonthly")
          [] a.pc = "uc_rMonthly" ->
                Goto([a EXCEPT !.loc.monthly = NumOr0(Rd(w, "consumption.monthly"))], w, "uc_rYearly")
          [] a.pc = "uc_rYearly" ->
                Goto([a EXCEPT !.loc.yearly = Rat(NumOr0(Rd(w, "consumption.yearly")), 1)],
                     w, "uc_rAdjustment")
          [] a.pc = "uc_rAdjustment" ->
                LET adjustment == NumOr0(Rd(w, "adjustment.value"))
                    a1 == [a EXCEPT !.loc.adjustment = adjustment]
                IN  IF adjustment = 0 THEN Goto(a1, w, "uc_costs")
                    ELSE IF cfg.type = "gas" THEN Goto(a1, w, "uc_rYearlyVolume")
                    ELSE Goto([a1 EXCEPT !.loc.yearly = RatAdd(l.yearly, Rat(adjustment, 1))],
                              w, "uc_costs")
          [] a.pc = "uc_rYearlyVolume" ->
                LET totalM3 == Rat(NumOr0(Rd(w, "consumption.yearlyVolume")) + l.adjustment, 1)
                IN  IF ConvertThrows(totalM3, cfg) THEN Throw(a, w)
                    ELSE Goto([a EXCEPT !.loc.yearly = ConvertGasM3ToKWh(totalM3, cfg)],
                              w, "uc_costs")
          [] a.pc = "uc_rDailyHT" ->
                Goto([a EXCEPT !.loc.dailyHT = ValOr0(Rd(w, "consumption.dailyHT")).v], w, "uc_rDailyNT")
          [] a.pc = "uc_rDailyNT" ->
                Goto([a EXCEPT !.loc.dailyNT = ValOr0(Rd(w, "consumption.dailyNT")).v], w, "uc_rMonthlyHT")
          [] a.pc = "uc_rMonthlyHT" ->
                Goto([a EXCEPT !.loc.monthlyHT = ValOr0(Rd(w, "consumption.monthlyHT")).v],
                     w, "uc_rMonthlyNT")
          [] a.pc = "uc_rMonthlyNT" ->
                Goto([a EXCEPT !.loc.monthlyNT = ValOr0(Rd(w, "consumption.monthlyNT")).v],
                     w, "uc_rYearlyHT")
          [] a.pc = "uc_rYearlyHT" ->
                Goto([a EXCEPT !.loc.yearlyHT = Rat(ValOr0(Rd(w, "consumption.yearlyHT")).v, 1)],
                     w, "uc_rYearlyNT")
          [] a.pc = "uc_rYearlyNT" ->
                LET yearlyNT == ValOr0(Rd(w, "consumption.yearlyNT")).v
                    adj == Rat(l.adjustment, 1)
                    throws == l.adjustment # 0 /\ cfg.type = "gas" /\ ConvertThrows(adj, cfg)
                    yearlyHT == YearlyHTAdjusted(l.yearlyHT, l.adjustment, cfg)
                IN  IF throws THEN Throw(a, w)
                    ELSE Goto([a EXCEPT
                                 !.loc.yearlyNT = yearlyNT,
                                 !.loc.yearlyHT = yearlyHT,
                                 !.loc.dailyCost =
                                     RatAdd(Cost(Rat(l.dailyHT, 1), cfg.HtPrice),
                                            Cost(Rat(l.dailyNT, 1), cfg.NtPrice)),
                                 !.loc.monthlyCost =
                                     RatAdd(Cost(Rat(l.monthlyHT, 1), cfg.HtPrice),
                                            Cost(Rat(l.monthlyNT, 1), cfg.NtPrice)),
                                 !.loc.yearlyCost =
                                     RatAdd(Cost(yearlyHT, cfg.HtPrice),
                                            Cost(Rat(yearlyNT, 1), cfg.NtPrice))],
                              w, "uc_wCostsDailyHT")
          [] a.pc = "uc_wCostsDailyHT" ->
                Goto(a, Wr(w, "costs.dailyHT", Num(RoundMoney(Cost(Rat(l.dailyHT, 1), cfg.HtPrice)))),
                     "uc_wCostsDailyNT")
          [] a.pc = "uc_wCostsDailyNT" ->
                Goto(a, Wr(w, "costs.dailyNT", Num(RoundMoney(Cost(Rat(l.dailyNT, 1), cfg.NtPrice)))),
                     "uc_wCostsMonthlyHT")
          [] a.pc = "uc_wCostsMonthlyHT" ->
                Goto(a, Wr(w, "costs.monthlyHT", Num(RoundMoney(Cost(Rat(l.monthlyHT, 1), cfg.HtPrice)))),
                     "uc_wCostsMonthlyNT")
          [] a.pc = "uc_wCostsMonthlyNT" ->
                Goto(a, Wr(w, "costs.monthlyNT", Num(RoundMoney(Cost(Rat(l.monthlyNT, 1), cfg.NtPrice)))),
                     "uc_wCostsYearlyHT")
          [] a.pc = "uc_wCostsYearlyHT" ->
                Goto(a, Wr(w, "costs.yearlyHT",
                           Num(RoundMoney(Cost(l.yearlyHT, cfg.HtPrice)))),
                     "uc_wCostsYearlyNT")
          [] a.pc = "uc_wCostsYearlyNT" ->
                Goto(a, Wr(w, "costs.yearlyNT", Num(RoundMoney(Cost(Rat(l.yearlyNT, 1), cfg.NtPrice)))),
                     "uc_months")
          [] a.pc = "uc_rLastYearStart" ->
                LET yearStartState == Rd(w, "statistics.lastYearStart")
                    yearStartTime == IF IsNum(yearStartState) THEN yearStartState.v ELSE w.now
                IN  Goto([a EXCEPT !.loc.months = MonthsSince(w.now, yearStartTime)], w, "uc_wDaily")
          [] a.pc = "uc_wDaily" ->
                Goto(a, Wr(w, "costs.daily", Num(RoundMoney(l.dailyCost))), "uc_wMonthly")
          [] a.pc = "uc_wMonthly" ->
                Goto(a, Wr(w, "costs.monthly", Num(RoundMoney(l.monthlyCost))), "uc_wYearly")
          [] a.pc = "uc_wYearly" ->
                Goto(a, Wr(w, YearlyCostState, Num(RoundMoney(l.yearlyCost))), "uc_wTotalYearly")
          [] a.pc = "uc_wTotalYearly" ->
                Goto(a, Wr(w, "costs.totalYearly", Num(RoundMoney(TotalYearlyCost(l, cfg)))),
                     "uc_wAnnualFee")
          [] a.pc = "uc_wAnnualFee" ->
                Goto(a, Wr(w, "costs.annualFee", Num(RoundMoney(AnnualFeeAccumulated(l, cfg)))),
                     "uc_wBasicCharge")
          [] a.pc = "uc_wBasicCharge" ->
                Goto(a, Wr(w, "costs.basicCharge", Num(RoundMoney(TotalFixCostsAccumulated(l, cfg)))),
                     "uc_wPaidTotal")
          [] a.pc = "uc_wPaidTotal" ->
                Goto(a, Wr(w, "costs.paidTotal",
                           IF cfg.Abschlag > 0 THEN Num(cfg.Abschlag * l.months) ELSE Num(0)),
                     "uc_wBalance")
          [] a.pc = "uc_wBalance" ->
                Return(a, Wr(w, "costs.balance",
                             IF cfg.Abschlag > 0
                             THEN Num(RoundMoney(RatAdd(TotalYearlyCost(l, cfg),
                                                        Rat(-(cfg.Abschlag * l.months), 1))))
                             ELSE Num(0)))

(* --------------------------- handleSensorUpdate ------------------------ *)
\* calculator.isHTTime(config, configType) at `minutes` past midnight; a
\* window time is minutes past midnight, -1 when the setting is empty
\* variant: a window is never taken to wrap past midnight
IsHTTimeNoWrap(cfg, minutes) ==
    IF ~cfg.HtNtEnabled THEN TRUE
    ELSE IF cfg.HtStart < 0 \/ cfg.HtEnd < 0 THEN TRUE
    ELSE minutes >= cfg.HtStart /\ minutes < cfg.HtEnd

IsHTTime(cfg, minutes) ==
    IF ~cfg.HtNtEnabled THEN TRUE
    ELSE IF cfg.HtStart < 0 \/ cfg.HtEnd < 0 THEN TRUE
    ELSE IF cfg.HtStart <= cfg.HtEnd THEN minutes >= cfg.HtStart /\ minutes < cfg.HtEnd
    ELSE minutes >= cfg.HtStart \/ minutes < cfg.HtEnd

Max0(x) == IF x > 0 THEN x ELSE 0

\* delta / (brennwert * zZahl), in 1/1000 m3
DeltaVolume(delta, cfg) == Reduce(Rat(delta * 1000, Brennwert(cfg) * ZZahl(cfg)))

\* variant: takes every value as a first one
HandleSensorUpdateSkipsAlways(lastValue, consumption) == TRUE

\* variant: skips only the first value, applies a decrease as a delta
HandleSensorUpdateSkipsNever(lastValue, consumption) == lastValue = Null

\* the guard of src/main.js:289: first value, or the value did not increase
HandleSensorUpdateSkips(lastValue, consumption) ==
    lastValue = Null \/ consumption <= lastValue.v

\* handleSensorUpdate, the synchronous code at its entry and between its
\* awaited calls
HandleSensorUpdateJunction(a, w) ==
    LET cfg == w.cfg
        l == a.loc
    IN  CASE a.pc = "hsu_enter" ->
                IF l.value < 0 THEN Return(a, w)
                ELSE LET consumption == IF cfg.Offset # 0 THEN l.value - cfg.Offset ELSE l.value
                         a1 == [a EXCEPT !.loc.now = w.now, !.loc.consumption = consumption]
                     IN  IF cfg.type = "gas" THEN Goto(a1, w, "hsu_wMeterReadingVolume")
                         ELSE Goto(a1, w, "hsu_wMeterReading")
          [] a.pc = "hsu_htnt" ->
                IF cfg.HtNtEnabled
                THEN Goto([a EXCEPT !.loc.isHT = IsHTTime(cfg, DateOf(w.now).minutes)],
                          w, "hsu_rDailyHTNT")
                ELSE Goto(a, w, "hsu_yearly")
          [] a.pc = "hsu_yearly" ->
                IF cfg.InitialReading > 0
                THEN IF cfg.type = "gas" THEN Goto(a, w, "hsu_wYearlyVolumeBase")
                     ELSE Goto([a EXCEPT !.loc.yearly =
                                    Rat(Max0(l.consumption - cfg.InitialReading), 1)],
                               w, "hsu_wYearlyBase")
                ELSE Goto(a, w, "hsu_rYearly")

Suffix(l) == IF l.isHT THEN "HT" ELSE "NT"

\* handleSensorUpdate, one awaited state-store call each
HandleSensorUpdateStep(a, w) ==
    LET cfg == w.cfg
        l == a.loc
    IN  CASE a.pc = "hsu_wMeterReadingVolume" ->
                LET w1 == Wr(w, "info.meterReadingVolume", Num(l.consumption))
                    m3 == Rat(l.consumption, 1)
                IN  IF ConvertThrows(m3, cfg) THEN Throw(a, w1)
                    ELSE Goto([a EXCEPT !.loc.consumptionM3 = l.consumption,
                                        !.loc.consumption =
                                            RoundToDecimals(ConvertGasM3ToKWh(m3, cfg), 2)],
                              w1, "hsu_wMeterReading")
          [] a.pc = "hsu_wMeterReading" ->
                LET lastValue == w.cache
                    w1 == [Wr(w, "info.meterReading", Num(l.consumption))
                              EXCEPT !.cache = Num(l.consumption)]
                IN  IF HandleSensorUpdateSkips(lastValue, l.consumption)
                    THEN Call(a, w1, "uc_enter", "return")
                    ELSE Goto([a EXCEPT !.loc.delta = l.consumption - lastValue.v],
                              [w1 EXCEPT !.accrued = @ + (l.consumption - lastValue.v)],
                              IF cfg.type = "gas" THEN "hsu_rDailyVolume" ELSE "hsu_rDaily")
          [] a.pc = "hsu_rDailyVolume" ->
                Goto([a EXCEPT !.loc.rd = Rd(w, "consumption.dailyVolume")], w, "hsu_rMonthlyVolume")
          [] a.pc = "hsu_rMonthlyVolume" ->
                Goto([a EXCEPT !.loc.rd2 = Rd(w, "consumption.monthlyVolume")], w, "hsu_rYearlyVolume")
          [] a.pc = "hsu_rYearlyVolume" ->
                Goto([a EXCEPT !.loc.rd3 = Rd(w, "consumption.yearlyVolume")], w, "hsu_wDailyVolume")
          [] a.pc = "hsu_wDailyVolume" ->
                Goto(a, Wr(w, "consumption.dailyVolume",
                           Num(RoundToDecimals(RatAdd(Rat(NumOr0(l.rd), 1),
                                                      DeltaVolume(l.delta, cfg)), 3))),
                     "hsu_wMonthlyVolume")
          [] a.pc = "hsu_wMonthlyVolume" ->
                Goto(a, Wr(w, "consumption.monthlyVolume",
                           Num(RoundToDecimals(RatAdd(Rat(NumOr0(l.rd2), 1),
                                                      DeltaVolume(l.delta, cfg)), 3))),
                     "hsu_wYearlyVolume")
          [] a.pc = "hsu_wYearlyVolume" ->
                Goto(a, Wr(w, "consumption.yearlyVolume",
                           Num(RoundToDecimals(RatAdd(Rat(NumOr0(l.rd3), 1),
                                                      DeltaVolume(l.delta, cfg)), 3))),
                     "hsu_rDaily")
          [] a.pc = "hsu_rDaily" ->
                Goto([a EXCEPT !.loc.rd = Rd(w, "consumption.daily")], w, "hsu_wDaily")
          [] a.pc = "hsu_wDaily" ->
                Goto(a, Wr(w, "consumption.daily",
                           Num(RoundToDecimals(Rat(NumOr0(l.rd) + l.delta, 1), 2))),
                     "hsu_rMonthly")
          [] a.pc = "hsu_rMonthly" ->
                Goto([a EXCEPT !.loc.rd = Rd(w, "consumption.monthly")], w, "hsu_wMonthly")
          [] a.pc = "hsu_wMonthly" ->
                Goto(a, Wr(w, "consumption.monthly",
                           Num(RoundToDecimals(Rat(NumOr0(l.rd) + l.delta, 1), 2))),
                     "hsu_htnt")
          [] a.pc = "hsu_rDailyHTNT" ->
                Goto([a EXCEPT !.loc.rd = Rd(w, "consumption.daily" \o Suffix(l))], w, "hsu_wDailyHTNT")
          [] a.pc = "hsu_wDailyHTNT" ->
                Goto(a, Wr(w, "consumption.daily" \o Suffix(l),
                           Num(RoundToDecimals(Rat(NumOr0(l.rd) + l.delta, 1), 2))),
                     "hsu_rMonthlyHTNT")
          [] a.pc = "hsu_rMonthlyHTNT" ->
                Goto([a EXCEPT !.loc.rd = Rd(w, "consumption.monthly" \o Suffix(l))],
                     w, "hsu_wMonthlyHTNT")
          [] a.pc = "hsu_wMonthlyHTNT" ->
                Goto(a, Wr(w, "consumption.monthly" \o Suffix(l),
                           Num(RoundToDecimals(Rat(NumOr0(l.rd) + l.delta, 1), 2))),
                     "hsu_rYearlyHTNT")
          [] a.pc = "hsu_rYearlyHTNT" ->
                Goto([a EXCEPT !.loc.rd = Rd(w, "consumption.yearly" \o Suffix(l))],
                     w, "hsu_wYearlyHTNT")
          [] a.pc = "hsu_wYearlyHTNT" ->
                Goto(a, Wr(w, "consumption.yearly" \o Suffix(l),
                           Num(RoundToDecimals(Rat(NumOr0(l.rd) + l.delta, 1), 2))),
                     "hsu_yearly")
          [] a.pc = "hsu_wYearlyVolumeBase" ->
                LET yearlyM3 == Rat(Max0(l.consumptionM3 - cfg.InitialReading), 1)
                IN  Goto([a EXCEPT !.loc.yearly = ConvertGasM3ToKWh(yearlyM3, cfg)],
                         Wr(w, "consumption.yearlyVolume", Num(RoundToDecimals(yearlyM3, 2))),
                         "hsu_wYearlyBase")
          [] a.pc = "hsu_wYearlyBase" ->
                Call(a, Wr(w, "consumption.yearly", Num(RoundToDecimals(l.yearly, 2))),
                     "uc_enter", "hsu_wLastUpdate")
          [] a.pc = "hsu_rYearly" ->
                Goto([a EXCEPT !.loc.rd = Rd(w, "consumption.yearly")], w, "hsu_wYearly")
          [] a.pc = "hsu_wYearly" ->
                Call(a, Wr(w, "consumption.yearly",
                           Num(RoundToDecimals(Rat(NumOr0(l.rd) + l.delta, 1), 2))),
                     "uc_enter", "hsu_wLastUpdate")
          [] a.pc = "hsu_wLastUpdate" ->
                Goto(a, Wr(w, "consumption.lastUpdate", Num(l.now)), "hsu_wLastSync")
          [] a.pc = "hsu_wLastSync" ->
                Return(a, Wr(w, "info.lastSync", Num(l.now)))

(* --------------------------- closeBillingPeriod ------------------------ *)
\* a record of a reset of the yearly counters: by a period close or by the
\* automatic yearly reset, in the calendar year of the clock
YearlyReset(by, now) == [by |-> by, year |-> DateOf(now).year]

\* variant: archives under the year of the clock, not under `year`
HistWrUnderCurrentYear(w, year, field, x) ==
    [w EXCEPT !.hist[<<DateOf(w.now).year, field>>] = x]

\* setStateAsync(`${type}.history.${year}.<field>`, x, true)
HistWr(w, year, field, x) == [w EXCEPT !.hist[<<year, field>>] = x]

\* variant: validates the contract start only
CloseValidationNoReadingCheck(endReading, contractStart) ==
    contractStart # << >> /\ ParseGermanDate(contractStart) # Null

\* the three validations of src/lib/billingManager.js:218-244: endReading is
\* the value read from billing.endReading, contractStart the configured string
CloseValidation(endReading, contractStart) ==
    /\ IsNum(endReading) /\ endReading.v # 0 /\ endReading.v > 0
    /\ contractStart # << >>
    /\ ParseGermanDate(contractStart) # Null

\* BillingManager.closeBillingPeriod, one awaited state-store call each (a
\* setObjectNotExistsAsync, which creates an object and changes no state, is
\* taken together with the setStateAsync that follows it)
CloseBillingPeriodStep(a, w) ==
    LET cfg == w.cfg
        l == a.loc
    IN  CASE a.pc = "cbp_rEndReading" ->
                LET endReadingState == Rd(w, "billing.endReading")
                IN  IF ~CloseValidation(endReadingState, cfg.ContractStart)
                    THEN Goto(a, w, "cbp_wAbort")
                    ELSE Goto([a EXCEPT !.loc.endReading = endReadingState,
                                        !.loc.year = DateOf(ParseGermanDate(cfg.ContractStart).v).year],
                              w, "cbp_rYearly")
          [] a.pc = "cbp_wAbort" ->
                Return(a, Wr(w, "billing.closePeriod", Bool(FALSE)))
          [] a.pc = "cbp_rYearly" ->
                Goto([a EXCEPT !.loc.histYearly = ValOr0(Rd(w, "consumption.yearly"))],
                     w, "cbp_rTotalYearly")
          [] a.pc = "cbp_rTotalYearly" ->
                Goto([a EXCEPT !.loc.histTotal = ValOr0(Rd(w, "costs.totalYearly"))],
                     w, "cbp_rBalance")
          [] a.pc = "cbp_rBalance" ->
                Goto([a EXCEPT !.loc.histBalance = ValOr0(Rd(w, "costs.balance"))],
                     w, "cbp_wHistYearly")
          [] a.pc = "cbp_wHistYearly" ->
                Goto(a, HistWr(w, l.year, "yearly", l.histYearly),
                     IF cfg.HtNtEnabled THEN "cbp_rYearlyHT"
                     ELSE IF cfg.type \in {"gas", "water"} THEN "cbp_rYearlyVolume"
                     ELSE "cbp_wHistTotalYearly")
          [] a.pc = "cbp_rYearlyHT" ->
                Goto([a EXCEPT !.loc.rd = ValOr0(Rd(w, "consumption.yearlyHT"))], w, "cbp_rYearlyNT")
          [] a.pc = "cbp_rYearlyNT" ->
                Goto([a EXCEPT !.loc.rd2 = ValOr0(Rd(w, "consumption.yearlyNT"))],
                     w, "cbp_wHistYearlyHT")
          [] a.pc = "cbp_wHistYearlyHT" ->
                Goto(a, HistWr(w, l.year, "yearlyHT", l.rd), "cbp_wHistYearlyNT")
          [] a.pc = "cbp_wHistYearlyNT" ->
                Goto(a, HistWr(w, l.year, "yearlyNT", l.rd2),
                     IF cfg.type \in {"gas", "water"} THEN "cbp_rYearlyVolume"
                     ELSE "cbp_wHistTotalYearly")
          [] a.pc = "cbp_rYearlyVolume" ->
                Goto([a EXCEPT !.loc.rd3 = ValOr0(Rd(w, "consumption.yearlyVolume"))],
                     w, "cbp_wHistYearlyVolume")
          [] a.pc = "cbp_wHistYearlyVolume" ->
                Goto(a, HistWr(w, l.year, "yearlyVolume", l.rd3), "cbp_wHistTotalYearly")
          [] a.pc = "cbp_wHistTotalYearly" ->
                Goto(a, HistWr(w, l.year, "totalYearly", l.histTotal), "cbp_wHistBalance")
          [] a.pc = "cbp_wHistBalance" ->
                Goto(a, HistWr(w, l.year, "balance", l.histBalance), "cbp_wNewInitialReading")
          [] a.pc = "cbp_wNewInitialReading" ->
                Goto(a, Wr(w, "billing.newInitialReading", l.endReading), "cbp_wYearly")
          [] a.pc = "cbp_wYearly" ->
                Goto(a, [Wr(w, "consumption.yearly", Num(0))
                            EXCEPT !.accrued = 0,
                                   !.yearlyResets = Append(@, YearlyReset("close", w.now))],
                     IF cfg.HtNtEnabled THEN "cbp_wYearlyHT"
                     ELSE IF cfg.type = "gas" THEN "cbp_wYearlyVolume"
                     ELSE "cbp_wCostsYearly")
          [] a.pc = "cbp_wYearlyHT" ->
                Goto(a, Wr(w, "consumption.yearlyHT", Num(0)), "cbp_wYearlyNT")
          [] a.pc = "cbp_wYearlyNT" ->
                Goto(a, Wr(w, "consumption.yearlyNT", Num(0)),
                     IF cfg.type = "gas" THEN "cbp_wYearlyVolume" ELSE "cbp_wCostsYearly")
          [] a.pc = "cbp_wYearlyVolume" ->
                Goto(a, Wr(w, "consumption.yearlyVolume", Num(0)), "cbp_wCostsYearly")
          [] a.pc = "cbp_wCostsYearly" ->
                Goto(a, Wr(w, "costs.yearly", Num(0)), "cbp_wTotalYearly")
          [] a.pc = "cbp_wTotalYearly" ->
                Goto(a, Wr(w, "costs.totalYearly", Num(0)), "cbp_wBasicCharge")
          [] a.pc = "cbp_wBasicCharge" ->
                Goto(a, Wr(w, "costs.basicCharge", Num(0)), "cbp_wAnnualFee")
          [] a.pc = "cbp_wAnnualFee" ->
                Goto(a, Wr(w, "costs.annualFee", Num(0)), "cbp_wBalance")
          [] a.pc = "cbp_wBalance" ->
                Goto(a, Wr(w, "costs.balance", Num(0)), "cbp_wPaidTotal")
          [] a.pc = "cbp_wPaidTotal" ->
                Goto(a, Wr(w, "costs.paidTotal", Num(0)), "cbp_wClosePeriod")
          [] a.pc = "cbp_wClosePeriod" ->
                Goto(a, Wr(w, "billing.closePeriod", Bool(FALSE)), "cbp_wNotificationSent")
          [] a.pc = "cbp_wNotificationSent" ->
                Goto(a, Wr(w, "billing.notificationSent", Bool(FALSE)),
                     "cbp_wNotificationChangeSent")
          [] a.pc = "cbp_wNotificationChangeSent" ->
                Return(a, [Wr(w, "billing.notificationChangeSent", Bool(FALSE))
                              EXCEPT !.closes = @ + 1])

(* ------------------------------ period resets -------------------------- *)
\* BillingManager.resetDailyCounters, resetMonthlyCounters, resetYearlyCounters
ResetCountersStep(a, w) ==
    LET cfg == w.cfg
        l == a.loc
    IN  CASE a.pc = "rdc_rDaily" ->
                Goto([a EXCEPT !.loc.dailyValue = ValOr0(Rd(w, "consumption.daily"))], w, "rdc_wLastDay")
          [] a.pc = "rdc_wLastDay" ->
                Goto(a, Wr(w, "statistics.lastDay", l.dailyValue), "rdc_wDaily")
          [] a.pc = "rdc_wDaily" ->
                Goto(a, Wr(w, "consumption.daily", Num(0)),
                     IF cfg.type = "gas" THEN "rdc_rDailyVolume" ELSE "rdc_wCostsDaily")
          [] a.pc = "rdc_rDailyVolume" ->
                Goto([a EXCEPT !.loc.rd = ValOr0(Rd(w, "consumption.dailyVolume"))],
                     w, "rdc_wLastDayVolume")
          [] a.pc = "rdc_wLastDayVolume" ->
                Goto(a, Wr(w, "statistics.lastDayVolume", l.rd), "rdc_wDailyVolume")
          [] a.pc = "rdc_wDailyVolume" ->
                Goto(a, Wr(w, "consumption.dailyVolume", Num(0)), "rdc_wCostsDaily")
          [] a.pc = "rdc_wCostsDaily" ->
                Goto(a, Wr(w, "costs.daily", Num(0)), "rdc_wLastDayStart")
          [] a.pc = "rdc_wLastDayStart" ->
                Goto(a, Wr(w, "statistics.lastDayStart", Num(w.now)), "rdc_wAverageDaily")
          [] a.pc = "rdc_wAverageDaily" ->
                Return(a, Wr(w, "statistics.averageDaily",
                             Num(RoundToDecimals(Rat(l.dailyValue.v, 1), 2))))
          [] a.pc = "rmc_rMonthly" ->
                Goto([a EXCEPT !.loc.dailyValue = ValOr0(Rd(w, "consumption.monthly"))],
                     w, "rmc_wMonthly")
          [] a.pc = "rmc_wMonthly" ->
                Goto(a, Wr(w, "consumption.monthly", Num(0)),
                     IF cfg.type = "gas" THEN "rmc_wMonthlyVolume" ELSE "rmc_wCostsMonthly")
          [] a.pc = "rmc_wMonthlyVolume" ->
                Goto(a, Wr(w, "consumption.monthlyVolume", Num(0)), "rmc_wCostsMonthly")
          [] a.pc = "rmc_wCostsMonthly" ->
                Goto(a, Wr(w, "costs.monthly", Num(0)), "rmc_wLastMonthStart")
          [] a.pc = "rmc_wLastMonthStart" ->
                Goto(a, Wr(w, "statistics.lastMonthStart", Num(w.now)), "rmc_wAverageMonthly")
          [] a.pc = "rmc_wAverageMonthly" ->
                Return(a, Wr(w, "statistics.averageMonthly",
                             Num(RoundToDecimals(Rat(l.dailyValue.v, 1), 2))))
          [] a.pc = "ryc_wYearly" ->
                Goto(a, [Wr(w, "consumption.yearly", Num(0))
                            EXCEPT !.accrued = 0,
                                   !.yearlyResets = Append(@, YearlyReset("auto", w.now))],
                     IF cfg.type = "gas" THEN "ryc_wYearlyVolume" ELSE "ryc_wCostsYearly")
          [] a.pc = "ryc_wYearlyVolume" ->
                Goto(a, Wr(w, "consumption.yearlyVolume", Num(0)), "ryc_wCostsYearly")
          [] a.pc = "ryc_wCostsYearly" ->
                Goto(a, Wr(w, "costs.yearly", Num(0)), "ryc_wNotificationSent")
          [] a.pc = "ryc_wNotificationSent" ->
                Goto(a, Wr(w, "billing.notificationSent", Bool(FALSE)),
                     "ryc_wNotificationChangeSent")
          [] a.pc = "ryc_wNotificationChangeSent" ->
                Goto(a, Wr(w, "billing.notificationChangeSent", Bool(FALSE)), "ryc_wLastYearStart")
          [] a.pc = "ryc_wLastYearStart" ->
                Return(a, Wr(w, "statistics.lastYearStart", Num(w.now)))

(* ---------------------------- notifications --------------------------- *)
DefaultBillingDays == 7
DefaultChangeDays == 60
NoDaysRemaining == 999

\* src/lib/messagingHandler.js:155
NotificationTypes == {"gas", "water", "electricity"}

\* MessagingHandler.checkNotifications and sendNotification for the channel.
\* l.sendResult is what the messaging instance does with a send request:
\* "ok" (answers), "fail" (sendToAsync rejects) or "hang" (never answers).
CheckNotificationsJunction(a, w) ==
    LET cfg == w.cfg
    IN  CASE a.pc = "cn_enter" ->
                IF ~cfg.notificationEnabled THEN Return(a, w)
                ELSE IF cfg.type \notin NotificationTypes THEN Return(a, w)
                ELSE IF ~cfg.notificationTypeEnabled \/ ~cfg.Aktiv THEN Return(a, w)
                ELSE Goto(a, w, "cn_rDaysRemaining")
          [] a.pc = "cn_billing" ->
                IF cfg.notificationBillingEnabled THEN Goto(a, w, "cn_rNotificationSent")
                ELSE Goto(a, w, "cn_change")
          [] a.pc = "cn_change" ->
                IF cfg.notificationChangeEnabled THEN Goto(a, w, "cn_rNotificationChangeSent")
                ELSE Return(a, w)

CheckNotificationsStep(a, w) ==
    LET cfg == w.cfg
        l == a.loc
    IN  CASE a.pc = "cn_rDaysRemaining" ->
                LET st == Rd(w, "billing.daysRemaining")
                IN  Goto([a EXCEPT !.loc.daysRemaining = IF IsNum(st) THEN st.v ELSE NoDaysRemaining],
                         w, "cn_rPeriodEnd")
          [] a.pc = "cn_rPeriodEnd" ->
                Goto([a EXCEPT !.loc.periodEnd = Rd(w, "billing.periodEnd").v], w, "cn_billing")
          [] a.pc = "cn_rNotificationSent" ->
                LET billingSent == Rd(w, "billing.notificationSent")
                    threshold == IF cfg.notificationBillingDays # 0 THEN cfg.notificationBillingDays
                                 ELSE DefaultBillingDays
                IN  IF billingSent # Bool(TRUE) /\ l.daysRemaining <= threshold
                    THEN Goto(a, w, "cn_sendBilling")
                    ELSE Goto(a, w, "cn_change")
          [] a.pc = "cn_sendBilling" ->
                IF l.sendResult = "ok"
                THEN Goto(a, [w EXCEPT !.sentBilling = @ + 1], "cn_wNotificationSent")
                ELSE IF l.sendResult = "fail" THEN Goto(a, w, "cn_change")
                ELSE Goto(a, w, "hung")
          [] a.pc = "cn_wNotificationSent" ->
                Goto(a, Wr(w, "billing.notificationSent", Bool(TRUE)), "cn_change")
          [] a.pc = "cn_rNotificationChangeSent" ->
                LET changeSent == Rd(w, "billing.notificationChangeSent")
                    threshold == IF cfg.notificationChangeDays # 0 THEN cfg.notificationChangeDays
                                 ELSE DefaultChangeDays
                IN  IF changeSent # Bool(TRUE) /\ l.daysRemaining <= threshold
                    THEN Goto(a, w, "cn_sendChange")
                    ELSE Return(a, w)
          [] a.pc = "cn_sendChange" ->
                IF l.sendResult = "ok"
                THEN Goto(a, [w EXCEPT !.sentChange = @ + 1], "cn_wNotificationChangeSent")
                ELSE IF l.sendResult = "fail" THEN Return(a, w)
                ELSE Goto(a, w, "hung")
          [] a.pc = "cn_wNotificationChangeSent" ->
                Return(a, Wr(w, "billing.notificationChangeSent", Bool(TRUE)))

(* --------------------------- checkPeriodResets ------------------------- *)
\* variant: compares day of month and month
DailyResetDueWithMonth(now, last) ==
    DateOf(now).date # DateOf(last).date \/ DateOf(now).month # DateOf(last).month

\* src/lib/billingManager.js:451, 459
DailyResetDue(now, last) == DateOf(now).date # DateOf(last).date
MonthlyResetDue(now, last) == DateOf(now).month # DateOf(last).month

\* variant: the anniversary alone decides, whatever the year of the anchor
YearlyResetDueEveryPass(now, last, contractStartDate) ==
    LET nowDate == DateOf(now)
        contractStart == ParseGermanDate(contractStartDate)
    IN  /\ contractStart # Null
        /\ \/ nowDate.month > DateOf(contractStart.v).month
           \/ /\ nowDate.month = DateOf(contractStart.v).month
              /\ nowDate.date >= DateOf(contractStart.v).date

\* src/lib/billingManager.js:469-483
YearlyResetDue(now, last, contractStartDate) ==
    LET nowDate == DateOf(now)
        lastYearStartDate == DateOf(last)
        contractStart == ParseGermanDate(contractStartDate)
    IN  IF contractStartDate # << >>
        THEN /\ contractStart # Null
             /\ LET annMonth == DateOf(contractStart.v).month
                    annDay == DateOf(contractStart.v).date
                    isPast == \/ nowDate.month > annMonth
                              \/ (nowDate.month = annMonth /\ nowDate.date >= annDay)
                IN  isPast /\ lastYearStartDate.year # nowDate.year
        ELSE nowDate.year # lastYearStartDate.year

\* src/lib/billingManager.js:434
PassTypes == {"gas", "water", "electricity"}

CheckPeriodResetsJunction(a, w) ==
    CASE a.pc = "cpr_enter" -> Call(a, w, "cn_enter", "cpr_types")
      [] a.pc = "cpr_types" ->
            IF w.cfg.type \notin PassTypes \/ ~w.cfg.Aktiv THEN Return(a, w)
            ELSE Goto([a EXCEPT !.loc.now = w.now], w, "cpr_wCurrentPrice")

\* BillingManager.checkPeriodResets for the channel
CheckPeriodResetsStep(a, w) ==
    LET cfg == w.cfg
        l == a.loc
    IN  CASE a.pc = "cpr_wCurrentPrice" ->
                Goto(a, Wr(w, "info.currentPrice", Num(cfg.Preis)), "cpr_rLastDayStart")
          [] a.pc = "cpr_rLastDayStart" ->
                LET lastDayStart == Rd(w, "statistics.lastDayStart")
                IN  IF Truthy(lastDayStart) /\ DailyResetDue(l.now, lastDayStart.v)
                    THEN Call(a, w, "rdc_rDaily", "cpr_rLastMonthStart")
                    ELSE Goto(a, w, "cpr_rLastMonthStart")
          [] a.pc = "cpr_rLastMonthStart" ->
                LET lastMonthStart == Rd(w, "statistics.lastMonthStart")
                IN  IF Truthy(lastMonthStart) /\ MonthlyResetDue(l.now, lastMonthStart.v)
                    THEN Call(a, w, "rmc_rMonthly", "cpr_rLastYearStart")
                    ELSE Goto(a, w, "cpr_rLastYearStart")
          [] a.pc = "cpr_rLastYearStart" ->
                LET lastYearStart == Rd(w, "statistics.lastYearStart")
                IN  IF Truthy(lastYearStart) /\ YearlyResetDue(l.now, lastYearStart.v, cfg.ContractStart)
                    THEN Call(a, w, "ryc_wYearly", "return")
                    ELSE Return(a, w)

(* ------------------------------ onStateChange -------------------------- *)
\* variant: any change of billing.closePeriod is a command
IsClosePeriodCommandAnyValue(ev) == ev.id = "billing.closePeriod"

\* src/main.js:1412
IsClosePeriodCommand(ev) == ev.id = "billing.closePeriod" /\ ev.val = Bool(TRUE) /\ ~ev.ack

\* src/main.js:1431
SensorTypes == {"gas", "water", "electricity", "pv"}

\* NebenkostenMonitor.onStateChange(id, state), l.ev the delivered change
OnStateChangeJunction(a, w) ==
    LET ev == a.loc.ev
    IN  CASE a.pc = "osc_enter" ->
                IF ev.val = Null THEN Return(a, w)
                ELSE IF IsClosePeriodCommand(ev) THEN Call(a, w, "cbp_rEndReading", "return")
                ELSE IF ev.id = "adjustment.value" /\ ~ev.ack
                     THEN Goto(a, w, "osc_wAdjustmentApplied")
                ELSE IF /\ w.cfg.type \in SensorTypes /\ w.cfg.Aktiv /\ w.cfg.SensorDP
                        /\ ev.id = "sensor" /\ IsNum(ev.val)
                     THEN Call([a EXCEPT !.loc.value = ev.val.v], w, "hsu_enter", "return")
                ELSE Return(a, w)

OnStateChangeStep(a, w) ==
    CASE a.pc = "osc_wAdjustmentApplied" ->
            Call(a, Wr(w, "adjustment.applied", Num(w.now)), "uc_enter", "return")

(* ------------------------- updateBillingCountdown ---------------------- *)
CeilDiv(n, d) == -((-n) \div d)

\* src/lib/billingManager.js:404-410
NextAnniversary(today, startDate) ==
    LET s == DateOf(startDate)
        thisYear == MkTime(DateOf(today).year, s.month, s.date, s.minutes)
        moved == DateOf(thisYear)
    IN  IF thisYear < today
        THEN MkTime(DateOf(today).year + 1, moved.month, moved.date, moved.minutes)
        ELSE thisYear

UpdateBillingCountdownJunction(a, w) ==
    LET contractStart == w.cfg.ContractStart
        startDate == ParseGermanDate(contractStart)
    IN  CASE a.pc = "ubc_enter" ->
                IF contractStart = << >> \/ startDate = Null THEN Return(a, w)
                ELSE LET nextAnniversary == NextAnniversary(w.now, startDate.v)
                     IN  Goto([a EXCEPT !.loc.daysRemaining =
                                            CeilDiv(nextAnniversary - w.now, MinutesPerDay),
                                        !.loc.periodEnd = nextAnniversary - MinutesPerDay],
                              w, "ubc_wDaysRemaining")

\* billing.periodEnd is a date string; Str carries the day it names
UpdateBillingCountdownStep(a, w) ==
    CASE a.pc = "ubc_wDaysRemaining" ->
            Goto(a, Wr(w, "billing.daysRemaining", Num(a.loc.daysRemaining)), "ubc_wPeriodEnd")
      [] a.pc = "ubc_wPeriodEnd" ->
            Return(a, Wr(w, "billing.periodEnd", Str(a.loc.periodEnd \div MinutesPerDay)))

(* ---------------------------- initializeUtility ------------------------ *)
VolumeKeys ==
    {"consumption.dailyVolume", "consumption.monthlyVolume", "consumption.yearlyVolume",
     "info.meterReadingVolume"}
HtNtKeys ==
    {"consumption.dailyHT", "consumption.dailyNT", "consumption.monthlyHT",
     "consumption.monthlyNT", "consumption.yearlyHT", "consumption.yearlyNT",
     "costs.dailyHT", "costs.dailyNT", "costs.monthlyHT", "costs.monthlyNT",
     "costs.yearlyHT", "costs.yearlyNT"}
NumberDefKeys ==
    {"consumption.daily", "consumption.monthly", "consumption.yearly",
     "costs.daily", "costs.monthly", "costs.yearly", "costs.totalYearly",
     "costs.annualFee", "costs.basicCharge", "costs.paidTotal", "costs.balance",
     "billing.endReading", "billing.daysRemaining", "billing.newInitialReading",
     "adjustment.value", "adjustment.applied", "info.meterReading",
     "info.currentPrice", "info.lastSync", "statistics.averageDaily",
     "statistics.averageMonthly"}
BoolDefKeys ==
    {"billing.closePeriod", "billing.notificationSent", "billing.notificationChangeSent",
     "info.sensorActive"}
NoDefKeys ==
    {"consumption.lastUpdate", "statistics.lastDayStart", "statistics.lastMonthStart",
     "statistics.lastYearStart", "billing.periodEnd"}
\* states the code writes without createUtilityStateStructure declaring them
UndeclaredKeys == {"statistics.lastDay", "statistics.lastDayVolume"}
StateKeys ==
    VolumeKeys \cup HtNtKeys \cup NumberDefKeys \cup BoolDefKeys \cup NoDefKeys
        \cup UndeclaredKeys

\* stateManager.createUtilityStateStructure: setObjectNotExistsAsync gives a
\* state its default only when the object is not there yet
CreateUtilityStateStructure(store, cfg) ==
    [k \in StateKeys |->
        IF store[k] # Null THEN store[k]
        ELSE IF k \in NumberDefKeys THEN Num(0)
        ELSE IF k \in VolumeKeys /\ cfg.type = "gas" THEN Num(0)
        ELSE IF k \in HtNtKeys /\ cfg.HtNtEnabled THEN Num(0)
        ELSE IF k \in BoolDefKeys THEN Bool(FALSE)
        ELSE IF k = "billing.periodEnd" THEN Str(0)
        ELSE Null]

\* src/main.js:145-172
InitialYearStart(now, contractStartDateStr) ==
    LET contractStart == ParseGermanDate(contractStartDateStr)
        currentYear == DateOf(now).year
    IN  IF contractStartDateStr # << >> /\ contractStart # Null
        THEN LET yearStartDate == MkTime(currentYear, DateOf(contractStart.v).month,
                                         DateOf(contractStart.v).date, Noon)
                 moved == DateOf(yearStartDate)
             IN  IF yearStartDate > now
                 THEN MkTime(currentYear - 1, moved.month, moved.date, Noon)
                 ELSE yearStartDate
        ELSE MkTime(currentYear, 0, 1, Noon)

InitializeUtilityJunction(a, w) ==
    LET cfg == w.cfg
    IN  CASE a.pc = "iu_enter" ->
                IF ~cfg.Aktiv THEN Goto(a, w, "iu_delete") ELSE Goto(a, w, "iu_create")
          [] a.pc = "iu_baseline" ->
                IF cfg.InitialReading > 0 THEN Goto(a, w, "iu_rSensorBaseline")
                ELSE Call(a, w, "ubc_enter", "return")
          [] a.pc = "iu_countdown" -> Call(a, w, "ubc_enter", "return")

\* initializeUtility(type, isActive), src/main.js:75-226
InitializeUtilityStep(a, w) ==
    LET cfg == w.cfg
        l == a.loc
    IN  CASE a.pc = "iu_delete" ->
                \* stateManager.deleteUtilityStateStructure: recursive delete
                Return(a, [w EXCEPT !.store = [k \in StateKeys |-> Null],
                                    !.hist = [k \in DOMAIN w.hist |-> Null],
                                    !.accrued = 0])
          [] a.pc = "iu_create" ->
                LET w1 == [w EXCEPT !.store = CreateUtilityStateStructure(w.store, cfg)]
                IN  IF ~cfg.SensorDP THEN Goto(a, w1, "iu_wSensorInactive")
                    ELSE Goto(a, [w1 EXCEPT !.subscribed = TRUE], "iu_wSensorActive")
          [] a.pc = "iu_wSensorInactive" ->
                Return(a, Wr(w, "info.sensorActive", Bool(FALSE)))
          [] a.pc = "iu_wSensorActive" ->
                Goto(a, Wr(w, "info.sensorActive", Bool(TRUE)), "iu_rMeterReading")
          [] a.pc = "iu_rMeterReading" ->
                LET lastReading == Rd(w, "info.meterReading")
                IN  Goto(a, IF IsNum(lastReading) THEN [w EXCEPT !.cache = lastReading] ELSE w,
                         "iu_rSensor")
          [] a.pc = "iu_rSensor" ->
                IF IsNum(w.sensor)
                THEN Call([a EXCEPT !.loc.value = w.sensor.v], w, "hsu_enter", "iu_rDayStart")
                ELSE Goto(a, w, "iu_rDayStart")
          [] a.pc = "iu_rDayStart" ->
                LET a1 == [a EXCEPT !.loc.now = w.now]
                IN  IF ~Truthy(Rd(w, "statistics.lastDayStart"))
                    THEN Goto(a1, w, "iu_wDayStart") ELSE Goto(a1, w, "iu_rMonthStart")
          [] a.pc = "iu_wDayStart" ->
                Goto(a, Wr(w, "statistics.lastDayStart", Num(l.now)), "iu_rMonthStart")
          [] a.pc = "iu_rMonthStart" ->
                IF ~Truthy(Rd(w, "statistics.lastMonthStart"))
                THEN Goto(a, w, "iu_wMonthStart") ELSE Goto(a, w, "iu_rYearStart")
          [] a.pc = "iu_wMonthStart" ->
                Goto(a, Wr(w, "statistics.lastMonthStart", Num(l.now)), "iu_rYearStart")
          [] a.pc = "iu_rYearStart" ->
                IF ~Truthy(Rd(w, "statistics.lastYearStart"))
                THEN Goto(a, w, "iu_wYearStart") ELSE Goto(a, w, "iu_wCurrentPrice")
          [] a.pc = "iu_wYearStart" ->
                Goto(a, Wr(w, "statistics.lastYearStart",
                           Num(InitialYearStart(l.now, cfg.ContractStart))),
                     "iu_wCurrentPrice")
          [] a.pc = "iu_wCurrentPrice" ->
                Call(a, Wr(w, "info.currentPrice", Num(cfg.Preis)), "uc_enter", "iu_baseline")
          [] a.pc = "iu_rSensorBaseline" ->
                IF IsNum(w.sensor)
                THEN LET currentRaw == w.sensor.v - cfg.Offset
                         yearlyM3 == Max0(currentRaw - cfg.InitialReading)
                     IN  IF cfg.type = "gas"
                         THEN IF ConvertThrows(Rat(yearlyM3, 1), cfg) THEN Throw(a, w)
                              ELSE Goto([a EXCEPT !.loc.consumptionM3 = yearlyM3,
                                                  !.loc.yearly =
                                                      ConvertGasM3ToKWh(Rat(yearlyM3, 1), cfg)],
                                        w, "iu_wYearlyVolume")
                         ELSE Goto([a EXCEPT !.loc.yearly = Rat(yearlyM3, 1)], w, "iu_wYearly")
                ELSE Call(a, w, "ubc_enter", "return")
          [] a.pc = "iu_wYearlyVolume" ->
                Goto(a, Wr(w, "consumption.yearlyVolume", Num(l.consumptionM3)), "iu_wYearly")
          [] a.pc = "iu_wYearly" ->
                \* written unrounded; the readings are whole units, so the
                \* product has at most three decimals
                Call(a, Wr(w, "consumption.yearly", Num(RoundToDecimals(l.yearly, 3))),
                     "uc_enter", "iu_countdown")

(* ------------------------------- import -------------------------------- *)
\* Array.prototype.sort by timestamp (stable)
InsertRecord(r, sorted) ==
    LET k == Cardinality({i \in 1..Len(sorted) : sorted[i].timestamp <= r.timestamp})
    IN  SubSeq(sorted, 1, k) \o <<r>> \o SubSeq(sorted, k + 1, Len(sorted))

RECURSIVE SortRecords(_)
SortRecords(rs) ==
    IF rs = << >> THEN << >>
    ELSE InsertRecord(rs[Len(rs)], SortRecords(SubSeq(rs, 1, Len(rs) - 1)))

RecordsOfYear(records, year) == SelectSeq(records, LAMBDA r : DateOf(r.timestamp).year = year)

RECURSIVE AscendingSeq(_)
AscendingSeq(S) ==
    IF S = {} THEN << >>
    ELSE LET m == CHOOSE x \in S : \A y \in S : x <= y
         IN  <<m>> \o AscendingSeq(S \ {m})

\* Object.keys(years): integer-like keys come in ascending order
YearsOf(records) == AscendingSeq({DateOf(records[i].timestamp).year : i \in 1..Len(records)})

\* variant: takes the records in the order of the file
ImportConsumptionUnsorted(readings) ==
    Max0(readings[Len(readings)].value - readings[1].value)

\* src/unnamed/part_003:97-107
ImportConsumption(readings) ==
    LET sorted == SortRecords(readings)
    IN  Max0(sorted[Len(sorted)].value - sorted[1].value)

\* src/unnamed/part_003:115-135: customUnit || 'kWh', 'kWh' for gas, 'm³' for water
ImportUnit(utility, customUnit) ==
    IF utility = "gas" THEN "kWh"
    ELSE IF utility = "water" THEN "m³"
    ELSE IF customUnit # "" THEN customUnit
    ELSE "kWh"

\* src/unnamed/part_003:116-127, a factor of 1 where the setting is unset
ImportGasKWh(consumption, cfg) ==
    LET b == IF cfg.gasBrennwert # 0 THEN Rat(cfg.gasBrennwert, 10) ELSE Rat(1, 1)
        z == IF cfg.gasZahl # 0 THEN Rat(cfg.gasZahl, 100) ELSE Rat(1, 1)
    IN  Reduce([n |-> consumption * b.n * z.n, d |-> b.d * z.d])

ProcessRecordsJunction(a, w) ==
    LET l == a.loc
    IN  CASE a.pc = "imp_enter" ->
                Goto([a EXCEPT !.loc.years = YearsOf(l.records)], w, "imp_year")
          [] a.pc = "imp_year" ->
                IF l.years = << >> THEN Return(a, w)
                ELSE LET consumption == ImportConsumption(RecordsOfYear(l.records, Head(l.years)))
                         a1 == [a EXCEPT !.loc.consumption = consumption,
                                         !.loc.year = Head(l.years),
                                         !.loc.yearly = Rat(consumption, 1),
                                         !.loc.unit = ImportUnit(w.cfg.type, l.customUnit)]
                     IN  IF w.cfg.type = "gas" THEN Goto(a1, w, "imp_wYearlyVolume")
                         ELSE Goto(a1, w, "imp_wYearly")

\* ImportManager.processRecords(utility, records) for the channel
ProcessRecordsStep(a, w) ==
    LET l == a.loc
    IN  CASE a.pc = "imp_wYearlyVolume" ->
                Goto([a EXCEPT !.loc.yearly = ImportGasKWh(l.consumption, w.cfg)],
                     HistWr(w, l.year, "yearlyVolume", Num(l.consumption)), "imp_wYearly")
          [] a.pc = "imp_wYearly" ->
                Goto([a EXCEPT !.loc.years = Tail(l.years),
                               !.loc.yearsUpdated = Append(@, l.year),
                               !.loc.details =
                                   Append(@, [year |-> l.year,
                                              consumption |-> RoundToDecimals(l.yearly, 3),
                                              unit |-> l.unit])],
                     HistWr(w, l.year, "yearly", Num(RoundToDecimals(l.yearly, 3))), "imp_year")

(* ------------------------------ dispatch ------------------------------- *)
UpdateCostsJunctionPcs ==
    {"uc_enter", "uc_costs", "uc_months"}
UpdateCostsStepPcs ==
    {"uc_rDaily", "uc_rMonthly", "uc_rYearly", "uc_rAdjustment", "uc_rYearlyVolume",
     "uc_rDailyHT", "uc_rDailyNT", "uc_rMonthlyHT", "uc_rMonthlyNT", "uc_rYearlyHT",
     "uc_rYearlyNT", "uc_wCostsDailyHT", "uc_wCostsDailyNT", "uc_wCostsMonthlyHT",
     "uc_wCostsMonthlyNT", "uc_wCostsYearlyHT", "uc_wCostsYearlyNT", "uc_rLastYearStart",
     "uc_wDaily", "uc_wMonthly", "uc_wYearly", "uc_wTotalYearly", "uc_wAnnualFee",
     "uc_wBasicCharge", "uc_wPaidTotal", "uc_wBalance"}
HandleSensorUpdateJunctionPcs ==
    {"hsu_enter", "hsu_htnt", "hsu_yearly"}
HandleSensorUpdateStepPcs ==
    {"hsu_wMeterReadingVolume", "hsu_wMeterReading", "hsu_rDailyVolume",
     "hsu_rMonthlyVolume", "hsu_rYearlyVolume", "hsu_wDailyVolume", "hsu_wMonthlyVolume",
     "hsu_wYearlyVolume", "hsu_rDaily", "hsu_wDaily", "hsu_rMonthly", "hsu_wMonthly",
     "hsu_rDailyHTNT", "hsu_wDailyHTNT", "hsu_rMonthlyHTNT", "hsu_wMonthlyHTNT",
     "hsu_rYearlyHTNT", "hsu_wYearlyHTNT", "hsu_wYearlyVolumeBase", "hsu_wYearlyBase",
     "hsu_rYearly", "hsu_wYearly", "hsu_wLastUpdate", "hsu_wLastSync"}
CloseBillingPeriodStepPcs ==
    {"cbp_rEndReading", "cbp_wAbort", "cbp_rYearly", "cbp_rTotalYearly", "cbp_rBalance",
     "cbp_wHistYearly", "cbp_rYearlyHT", "cbp_rYearlyNT", "cbp_wHistYearlyHT",
     "cbp_wHistYearlyNT", "cbp_rYearlyVolume", "cbp_wHistYearlyVolume",
     "cbp_wHistTotalYearly", "cbp_wHistBalance", "cbp_wNewInitialReading", "cbp_wYearly",
     "cbp_wYearlyHT", "cbp_wYearlyNT", "cbp_wYearlyVolume", "cbp_wCostsYearly",
     "cbp_wTotalYearly", "cbp_wBasicCharge", "cbp_wAnnualFee", "cbp_wBalance",
     "cbp_wPaidTotal", "cbp_wClosePeriod", "cbp_wNotificationSent",
     "cbp_wNotificationChangeSent"}
ResetCountersStepPcs ==
    {"rdc_rDaily", "rdc_wLastDay", "rdc_wDaily", "rdc_rDailyVolume", "rdc_wLastDayVolume",
     "rdc_wDailyVolume", "rdc_wCostsDaily", "rdc_wLastDayStart", "rdc_wAverageDaily",
     "rmc_rMonthly", "rmc_wMonthly", "rmc_wMonthlyVolume", "rmc_wCostsMonthly",
     "rmc_wLastMonthStart", "rmc_wAverageMonthly", "ryc_wYearly", "ryc_wYearlyVolume",
     "ryc_wCostsYearly", "ryc_wNotificationSent", "ryc_wNotificationChangeSent",
     "ryc_wLastYearStart"}
CheckNotificationsJunctionPcs ==
    {"cn_enter", "cn_billing", "cn_change"}
CheckNotificationsStepPcs ==
    {"cn_rDaysRemaining", "cn_rPeriodEnd", "cn_rNotificationSent", "cn_sendBilling",
     "cn_wNotificationSent", "cn_rNotificationChangeSent", "cn_sendChange",
     "cn_wNotificationChangeSent"}
CheckPeriodResetsJunctionPcs ==
    {"cpr_enter", "cpr_types"}
CheckPeriodResetsStepPcs ==
    {"cpr_wCurrentPrice", "cpr_rLastDayStart", "cpr_rLastMonthStart", "cpr_rLastYearStart"}
OnStateChangeJunctionPcs ==
    {"osc_enter"}
OnStateChangeStepPcs ==
    {"osc_wAdjustmentApplied"}
UpdateBillingCountdownJunctionPcs ==
    {"ubc_enter"}
UpdateBillingCountdownStepPcs ==
    {"ubc_wDaysRemaining", "ubc_wPeriodEnd"}
InitializeUtilityJunctionPcs ==
    {"iu_enter", "iu_baseline", "iu_countdown"}
InitializeUtilityStepPcs ==
    {"iu_delete", "iu_create", "iu_wSensorInactive", "iu_wSensorActive",
     "iu_rMeterReading", "iu_rSensor", "iu_rDayStart", "iu_wDayStart", "iu_rMonthStart",
     "iu_wMonthStart", "iu_rYearStart", "iu_wYearStart", "iu_wCurrentPrice",
     "iu_rSensorBaseline", "iu_wYearlyVolume", "iu_wYearly"}
ProcessRecordsJunctionPcs ==
    {"imp_enter", "imp_year"}
ProcessRecordsStepPcs ==
    {"imp_wYearlyVolume", "imp_wYearly"}

JunctionPcs ==
    {"return"} \cup UpdateCostsJunctionPcs
        \cup HandleSensorUpdateJunctionPcs
        \cup CheckNotificationsJunctionPcs
        \cup CheckPeriodResetsJunctionPcs
        \cup OnStateChangeJunctionPcs
        \cup UpdateBillingCountdownJunctionPcs
        \cup InitializeUtilityJunctionPcs
        \cup ProcessRecordsJunctionPcs
StepPcs ==
    UpdateCostsStepPcs
        \cup HandleSensorUpdateStepPcs
        \cup CloseBillingPeriodStepPcs
        \cup ResetCountersStepPcs
        \cup CheckNotificationsStepPcs
        \cup CheckPeriodResetsStepPcs
        \cup OnStateChangeStepPcs
        \cup UpdateBillingCountdownStepPcs
        \cup InitializeUtilityStepPcs
        \cup ProcessRecordsStepPcs
FinalPcs == {"done", "error", "hung"}

\* one transition of an activation: the code from one await to the next
Exec(a, w) ==
    CASE a.pc = "return" -> Return(a, w)
      [] a.pc \in UpdateCostsJunctionPcs -> UpdateCostsJunction(a, w)
      [] a.pc \in UpdateCostsStepPcs -> UpdateCostsStep(a, w)
      [] a.pc \in HandleSensorUpdateJunctionPcs -> HandleSensorUpdateJunction(a, w)
      [] a.pc \in HandleSensorUpdateStepPcs -> HandleSensorUpdateStep(a, w)
      [] a.pc \in CloseBillingPeriodStepPcs -> CloseBillingPeriodStep(a, w)
      [] a.pc \in ResetCountersStepPcs -> ResetCountersStep(a, w)
      [] a.pc \in CheckNotificationsJunctionPcs -> CheckNotificationsJunction(a, w)
      [] a.pc \in CheckNotificationsStepPcs -> CheckNotificationsStep(a, w)
      [] a.pc \in CheckPeriodResetsJunctionPcs -> CheckPeriodResetsJunction(a, w)
      [] a.pc \in CheckPeriodResetsStepPcs -> CheckPeriodResetsStep(a, w)
      [] a.pc \in OnStateChangeJunctionPcs -> OnStateChangeJunction(a, w)
      [] a.pc \in OnStateChangeStepPcs -> OnStateChangeStep(a, w)
      [] a.pc \in UpdateBillingCountdownJunctionPcs -> UpdateBillingCountdownJunction(a, w)
      [] a.pc \in UpdateBillingCountdownStepPcs -> UpdateBillingCountdownStep(a, w)
      [] a.pc \in InitializeUtilityJunctionPcs -> InitializeUtilityJunction(a, w)
      [] a.pc \in InitializeUtilityStepPcs -> InitializeUtilityStep(a, w)
      [] a.pc \in ProcessRecordsJunctionPcs -> ProcessRecordsJunction(a, w)
      [] a.pc \in ProcessRecordsStepPcs -> ProcessRecordsStep(a, w)

\* synchronous code runs on until the next awaited call
RECURSIVE Settle(_)
Settle(r) == IF r.a.pc \in JunctionPcs THEN Settle(Exec(r.a, r.w)) ELSE r

\* the awaited call at a.pc completes and the handler runs to its next await
Segment(a, w) == Settle(Exec(a, w))

\* a handler run with nothing else in between
RECURSIVE RunToEnd(_)
RunToEnd(r) == IF r.a.pc \in FinalPcs THEN r ELSE RunToEnd(Exec(r.a, r.w))

(* ------------------------------ the adapter ---------------------------- *)
VARIABLES
    store,       \* the channel's states in the state store (persistent)
    hist,        \* the channel's history.<year>.<field> states (persistent)
    cache,       \* lastSensorValues[sensorDP], in the adapter's memory
    cfg,         \* the adapter configuration of the channel
    now,         \* the wall clock
    sensor,      \* the foreign sensor state
    subscribed,  \* subscribeForeignStates(sensorDP) was called
    running,     \* the adapter process is up and onReady has completed
    checked,     \* a scheduler pass has run at the present clock value
    inflight,    \* handlers that wait at an awaited call
    closes,      \* billing periods closed so far
    sentBilling, \* billing reminders delivered so far
    sentChange,  \* contract-change reminders delivered so far
    accrued,     \* the deltas handleSensorUpdate computed since the yearly total was last set to 0
    yearlyResets, \* the resets of the yearly counters so far, in their order
    ev,          \* the last thing that happened
    steps        \* number of things that happened so far

vars ==
    <<store, hist, cache, cfg, now, sensor, subscribed, running, checked, inflight,
      closes, sentBilling, sentChange, accrued, yearlyResets, ev, steps>>

HistYears == {2025, 2026}
HistFields == {"yearly", "yearlyHT", "yearlyNT", "yearlyVolume", "totalYearly", "balance"}
HistKeys == HistYears \X HistFields

\* 11.05.2026 10:00, 12.05.2026 10:00 and 23:00, 11.06.2026 10:00, 11.05.2027 10:00
Times ==
    <<MkTime(2026, 4, 11, 600), MkTime(2026, 4, 12, 600), MkTime(2026, 4, 12, 1380),
      MkTime(2026, 5, 11, 600), MkTime(2027, 4, 11, 600)>>

BaseConfig ==
    [type |-> "electricity", Aktiv |-> TRUE, SensorDP |-> TRUE, Offset |-> 0,
     InitialReading |-> 0, Preis |-> 30, HtNtEnabled |-> FALSE, HtPrice |-> 0,
     NtPrice |-> 0, HtStart |-> -1, HtEnd |-> -1, Grundgebuehr |-> 1000,
     Jahresgebuehr |-> 6000, Abschlag |-> 5000, ContractStart |-> <<12, 5, 2025>>,
     gasBrennwert |-> 0, gasZahl |-> 0, notificationEnabled |-> FALSE,
     notificationTypeEnabled |-> FALSE, notificationBillingEnabled |-> FALSE,
     notificationBillingDays |-> 0, notificationChangeEnabled |-> FALSE,
     notificationChangeDays |-> 0]

Configs ==
    { BaseConfig,
      [BaseConfig EXCEPT !.HtNtEnabled = TRUE, !.HtPrice = 30, !.NtPrice = 20,
                         !.HtStart = 360, !.HtEnd = 1320, !.Abschlag = 1000],
      [BaseConfig EXCEPT !.InitialReading = 2000, !.Offset = 1000],
      [BaseConfig EXCEPT !.type = "gas", !.Preis = 10, !.InitialReading = 2000],
      [BaseConfig EXCEPT !.type = "gas", !.Preis = 10, !.gasBrennwert = 100,
                         !.gasZahl = 100, !.ContractStart = <<12, 5>>],
      [BaseConfig EXCEPT !.type = "water", !.Preis = 20, !.ContractStart = << >>,
                         !.Grundgebuehr = 0, !.Jahresgebuehr = 0, !.Abschlag = 0],
      [BaseConfig EXCEPT !.type = "water", !.Preis = 20, !.notificationEnabled = TRUE,
                         !.notificationTypeEnabled = TRUE,
                         !.notificationBillingEnabled = TRUE,
                         !.notificationChangeEnabled = TRUE,
                         !.notificationChangeDays = 400] }

SensorValues == {3000, 10000, 5000}
EndReadings == {12000, -500}
Adjustments == {-1000, 2000}
ImportRecords ==
    { <<[timestamp |-> MkTime(2026, 2, 1, 0), value |-> 9000],
        [timestamp |-> MkTime(2025, 11, 31, 0), value |-> 4000],
        [timestamp |-> MkTime(2025, 0, 1, 0), value |-> 1000],
        [timestamp |-> MkTime(2026, 0, 1, 0), value |-> 4000]>> }

World ==
    [store |-> store, hist |-> hist, cache |-> cache, cfg |-> cfg, now |-> now,
     sensor |-> sensor, subscribed |-> subscribed, closes |-> closes,
     sentBilling |-> sentBilling, sentChange |-> sentChange, accrued |-> accrued,
     yearlyResets |-> yearlyResets]

Apply(w) ==
    /\ store' = w.store
    /\ hist' = w.hist
    /\ cache' = w.cache
    /\ cfg' = w.cfg
    /\ sensor' = w.sensor
    /\ subscribed' = w.subscribed
    /\ closes' = w.closes
    /\ sentBilling' = w.sentBilling
    /\ sentChange' = w.sentChange
    /\ accrued' = w.accrued
    /\ yearlyResets' = w.yearlyResets

Event(kind, id, val, ack, outcome) ==
    [kind |-> kind, id |-> id, val |-> val, ack |-> ack, outcome |-> outcome]

NoChange == [id |-> "none", val |-> Null, ack |-> FALSE]

NewActivation(kind, entry, change, sendResult, records) ==
    [Activation(kind, entry) EXCEPT !.loc.ev = change, !.loc.sendResult = sendResult,
                                    !.loc.records = records]

Run(a, w) == RunToEnd([a |-> a, w |-> w])

\* what the messaging instance may do with a send request
SendResults(c) == IF c.notificationEnabled THEN {"ok", "fail", "hang"} ELSE {"ok"}

\* a fresh installation: nothing in the state store yet
FreshWorld(c, s) ==
    [store |-> [k \in StateKeys |-> Null], hist |-> [k \in HistKeys |-> Null],
     cache |-> Null, cfg |-> c, now |-> Times[1], sensor |-> s, subscribed |-> FALSE,
     closes |-> 0, sentBilling |-> 0, sentChange |-> 0, accrued |-> 0,
     yearlyResets |-> << >>]

\* onReady: initializeUtility, then setupPeriodicTasks with its immediate
\* checkPeriodResets
SetupPeriodicTasks(r1, sr) ==
    IF r1.a.pc = "error" THEN r1
    ELSE Run(NewActivation("checkPeriodResets", "cpr_enter", NoChange, sr, << >>), r1.w)

OnReady(w, sr) ==
    SetupPeriodicTasks(
        Run(NewActivation("initializeUtility", "iu_enter", NoChange, sr, << >>), w), sr)

InitFrom(r) ==
    /\ store = r.w.store
    /\ hist = r.w.hist
    /\ cache = r.w.cache
    /\ cfg = r.w.cfg
    /\ now = r.w.now
    /\ sensor = r.w.sensor
    /\ subscribed = r.w.subscribed
    /\ running = TRUE
    /\ checked = TRUE
    /\ inflight = << >>
    /\ closes = r.w.closes
    /\ sentBilling = r.w.sentBilling
    /\ sentChange = r.w.sentChange
    /\ accrued = r.w.accrued
    /\ yearlyResets = r.w.yearlyResets
    /\ ev = [kind |-> "Start", id |-> "none", val |-> Null, ack |-> FALSE, outcome |-> r.a.pc]
    /\ steps = 0

\* the adapter has been installed and started for the first time
Init == \E c \in Configs, s \in {Null, Num(3000)} : InitFrom(OnReady(FreshWorld(c, s), "ok"))

\* a rejected handler promise is an unhandled rejection: the process goes on
\* or the runtime ends it
Crashes(outcome) == IF outcome = "error" THEN BOOLEAN ELSE {FALSE}

Finish(w, crash) ==
    /\ Apply(IF crash THEN [w EXCEPT !.cache = Null, !.subscribed = FALSE] ELSE w)
    /\ running' = ~crash

\* a handler run r has ended
Ended(kind, change, r) ==
    \E crash \in Crashes(r.a.pc) :
        /\ Finish(r.w, crash)
        /\ ev' = Event(kind, change.id, change.val, change.ack, r.a.pc)

\* a restart; the configuration may have been edited while stopped
Started(r) ==
    /\ Finish(r.w, r.a.pc = "error")
    /\ checked' = IF r.a.pc = "error" THEN checked ELSE TRUE
    /\ ev' = Event("Start", "none", Null, FALSE, r.a.pc)

Start ==
    \E c \in {cfg, [cfg EXCEPT !.Aktiv = ~@]} : \E sr \in SendResults(c) :
        /\ ~running /\ steps < MaxEvents
        /\ Started(OnReady([World EXCEPT !.cfg = c, !.cache = Null, !.subscribed = FALSE], sr))
        /\ steps' = steps + 1
        /\ UNCHANGED <<now, inflight>>

\* onUnload: the timers are cleared and the process ends
Stop ==
    /\ running /\ inflight = << >> /\ steps < MaxEvents
    /\ running' = FALSE
    /\ cache' = Null
    /\ subscribed' = FALSE
    /\ ev' = Event("Stop", "none", Null, FALSE, "done")
    /\ steps' = steps + 1
    /\ UNCHANGED <<store, hist, cfg, now, sensor, checked, inflight, closes, sentBilling,
                   sentChange, accrued, yearlyResets>>

\* time passes; while the adapter runs its timer fires every minute, so the
\* clock gets to the next time of the model, not more than a day away, and
\* only when a pass has run; while it is stopped any time may pass
Tick ==
    \E i \in 1..(Len(Times) - 1), j \in 2..Len(Times) :
        /\ now = Times[i] /\ i < j /\ steps < MaxEvents
        /\ running => (checked /\ j = i + 1 /\ Times[j] - now <= MinutesPerDay)
        /\ now' = Times[j]
        /\ checked' = FALSE
        /\ ev' = Event("Tick", "none", Null, FALSE, "done")
        /\ steps' = steps + 1
        /\ UNCHANGED <<store, hist, cache, cfg, sensor, subscribed, running, inflight,
                       closes, sentBilling, sentChange, accrued, yearlyResets>>

\* the interval timer of setupPeriodicTasks: checkPeriodResets
SchedulerPass ==
    \E sr \in SendResults(cfg) :
        /\ running /\ steps < MaxEvents
        /\ Ended("SchedulerPass", NoChange,
                 Run(NewActivation("checkPeriodResets", "cpr_enter", NoChange, sr, << >>), World))
        /\ checked' = TRUE
        /\ steps' = steps + 1
        /\ UNCHANGED <<now, inflight>>

\* a change of a state is delivered to onStateChange when the adapter runs
\* and has subscribed to the state; w is the world with the change in it
Changed(kind, w, change, delivered) ==
    IF delivered
    THEN Ended(kind, change,
               Run(NewActivation("onStateChange", "osc_enter", change, "ok", << >>), w))
    ELSE /\ Apply(w)
         /\ running' = running
         /\ ev' = Event(kind, change.id, change.val, change.ack, "none")

\* the meter: the foreign sensor state is written by its own adapter
SensorChange ==
    \E v \in SensorValues :
        /\ steps < MaxEvents
        /\ Changed("SensorChange", [World EXCEPT !.sensor = Num(v)],
                   [id |-> "sensor", val |-> Num(v), ack |-> TRUE], running /\ subscribed)
        /\ steps' = steps + 1
        /\ UNCHANGED <<now, checked, inflight>>

\* billing.closePeriod is written (subscribed: '*.billing.closePeriod'): by
\* the user, or acknowledged, as the adapter's own writes are
WriteClosePeriod ==
    \E b \in BOOLEAN, ack \in BOOLEAN :
        /\ steps < MaxEvents
        /\ store["billing.closePeriod"] # Null
        /\ Changed("WriteClosePeriod", Wr(World, "billing.closePeriod", Bool(b)),
                   [id |-> "billing.closePeriod", val |-> Bool(b), ack |-> ack], running)
        /\ steps' = steps + 1
        /\ UNCHANGED <<now, checked, inflight>>

\* the user enters the final meter reading (not subscribed)
WriteEndReading ==
    \E v \in EndReadings :
        /\ steps < MaxEvents
        /\ store["billing.endReading"] # Null
        /\ Changed("WriteEndReading", Wr(World, "billing.endReading", Num(v)),
                   [id |-> "billing.endReading", val |-> Num(v), ack |-> FALSE], FALSE)
        /\ steps' = steps + 1
        /\ UNCHANGED <<now, checked, inflight>>

\* the user enters a manual adjustment (subscribed: '*.adjustment.value')
WriteAdjustment ==
    \E v \in Adjustments :
        /\ steps < MaxEvents
        /\ store["adjustment.value"] # Null
        /\ Changed("WriteAdjustment", Wr(World, "adjustment.value", Num(v)),
                   [id |-> "adjustment.value", val |-> Num(v), ack |-> FALSE], running)
        /\ steps' = steps + 1
        /\ UNCHANGED <<now, checked, inflight>>

\* onMessage 'importData': ImportManager.processRecords
Import ==
    \E records \in ImportRecords :
        /\ running /\ steps < MaxEvents
        /\ Ended("Import", NoChange,
                 Run(NewActivation("processRecords", "imp_enter", NoChange, "ok", records),
                     World))
        /\ steps' = steps + 1
        /\ UNCHANGED <<now, checked, inflight>>

Next ==
    \/ Start
    \/ Stop
    \/ Tick
    \/ SchedulerPass
    \/ SensorChange
    \/ WriteClosePeriod
    \/ WriteEndReading
    \/ WriteAdjustment
    \/ Import

\* every handler runs to its end before the next one starts
Spec == Init /\ [][Next]_vars

(* ------------------------- handlers in flight -------------------------- *)
\* A handler is started when its event arrives, whatever else is in flight:
\* onStateChange and the timer callback take no lock and keep no queue.  The
\* state store answers in the order of the requests, and every handler has
\* one request outstanding, so the handler at the head of inflight is the
\* next to go on, and it rejoins at the tail with its next request.
Pending(pc) == IF pc \in FinalPcs THEN pc ELSE "pending"

Began(kind, change, r) ==
    /\ Finish(r.w, FALSE)
    /\ inflight' = IF r.a.pc \in FinalPcs THEN inflight ELSE Append(inflight, r.a)
    /\ ev' = Event(kind, change.id, change.val, change.ack, Pending(r.a.pc))

Resumed(r) ==
    /\ Apply(r.w)
    /\ running' = running
    /\ inflight' = IF r.a.pc \in FinalPcs THEN Tail(inflight) ELSE Append(Tail(inflight), r.a)
    /\ ev' = Event("Resume", r.a.kind, Null, FALSE, Pending(r.a.pc))

SensorHandlers == {i \in 1..Len(inflight) : inflight[i].kind = "onStateChange"}

\* a sensor value arrives and onStateChange starts
BeginSensor ==
    \E v \in SensorValues :
        /\ running /\ subscribed /\ steps < MaxEvents /\ Len(inflight) < MaxInflight
        /\ Began("SensorChange", [id |-> "sensor", val |-> Num(v), ack |-> TRUE],
                 Settle([a |-> NewActivation("onStateChange", "osc_enter",
                                             [id |-> "sensor", val |-> Num(v), ack |-> TRUE],
                                             "ok", << >>),
                         w |-> [World EXCEPT !.sensor = Num(v)]]))
        /\ steps' = steps + 1
        /\ UNCHANGED <<now, checked>>

\* the same, with the sensor values of the channel arriving one at a time
BeginSensorAlone == SensorHandlers = {} /\ BeginSensor

PassHandlers == {i \in 1..Len(inflight) : inflight[i].kind = "checkPeriodResets"}

\* the timer fires and checkPeriodResets starts; the timer's period is far
\* longer than a pass, so the pass before it has ended
BeginPass ==
    /\ running /\ steps < MaxEvents /\ Len(inflight) < MaxInflight
    /\ PassHandlers = {}
    /\ Began("SchedulerPass", NoChange,
             Settle([a |-> NewActivation("checkPeriodResets", "cpr_enter", NoChange, "ok", << >>),
                     w |-> World]))
    /\ checked' = TRUE
    /\ steps' = steps + 1
    /\ UNCHANGED now

\* the state store answers the oldest outstanding request
Resume ==
    /\ inflight # << >>
    /\ Resumed(Segment(Head(inflight), World))
    /\ UNCHANGED <<now, checked, steps>>

\* the channels whose handlers are followed await by await: electricity and
\* water at a flat tariff, in accumulation mode
InitInflight == Init /\ cfg.type # "gas" /\ ~cfg.HtNtEnabled /\ cfg.InitialReading = 0

NextSensors == BeginSensor \/ Resume

\* sensor updates of one channel, overlapping as their events arrive
SpecSensors == InitInflight /\ [][NextSensors]_vars

NextResets == Tick \/ BeginPass \/ BeginSensorAlone \/ Resume

\* scheduler passes and sensor updates, overlapping as their events arrive
SpecResets == InitInflight /\ [][NextResets]_vars

(* ------------------- unload with handlers in flight -------------------- *)
\* variant: the timers are left running
UnloadKeepsTimers ==
    /\ running /\ steps < MaxEvents
    /\ ev' = Event("Unload", "none", Null, FALSE, "done")
    /\ steps' = steps + 1
    /\ UNCHANGED <<store, hist, cache, cfg, now, sensor, subscribed, running, checked,
                   inflight, closes, sentBilling, sentChange, accrued, yearlyResets>>

\* onUnload: the timers are cleared and the callback is called; nothing is
\* done about the handlers in flight, whose requests the state store still
\* answers
Unload ==
    /\ running /\ steps < MaxEvents
    /\ running' = FALSE
    /\ ev' = Event("Unload", "none", Null, FALSE, "done")
    /\ steps' = steps + 1
    /\ UNCHANGED <<store, hist, cache, cfg, now, sensor, subscribed, checked, inflight,
                   closes, sentBilling, sentChange, accrued, yearlyResets>>

NextUnload == Tick \/ BeginPass \/ BeginSensorAlone \/ Resume \/ Unload

\* scheduler passes and sensor updates in flight when the adapter is unloaded
SpecUnload == InitInflight /\ [][NextUnload]_vars

(* ------------------- a meter that only ever counts up ------------------ *)
\* the reading the meter shows at the first start, and the readings it may
\* show later: steps of 0.004 and a step of whole units
FirstReading == 3000
MeterReadings == {3000, 3004, 3008, 3012, 3016, 5000}

InitMeter == \E c \in Configs : InitFrom(OnReady(FreshWorld(c, Num(FirstReading)), "ok"))

\* the sensor reports a reading that is not below its last one
MeterReading ==
    \E v \in MeterReadings :
        /\ steps < MaxEvents /\ v >= sensor.v
        /\ Changed("SensorChange", [World EXCEPT !.sensor = Num(v)],
                   [id |-> "sensor", val |-> Num(v), ack |-> TRUE], running /\ subscribed)
        /\ steps' = steps + 1
        /\ UNCHANGED <<now, checked, inflight>>

NextMeter == MeterReading

SpecMeter == InitMeter /\ [][NextMeter]_vars

(* ---------------- a sensor that reports unusable values ---------------- *)
\* a gas meter whose offset lies above some of the reported values
GasOffsetConfig == [BaseConfig EXCEPT !.type = "gas", !.Preis = 10, !.Offset = 1000]

\* what the sensor state may hold: readings above and below the offset, a
\* negative number, a string, a boolean
ReportedValues == {Num(3000), Num(5000), Num(500), Num(-500), Str(0), Bool(TRUE)}

InitReported ==
    \E c \in Configs \cup {GasOffsetConfig} :
        InitFrom(OnReady(FreshWorld(c, Num(FirstReading)), "ok"))

\* the sensor state changes to any of these values
ReportedChange ==
    \E val \in ReportedValues :
        /\ steps < MaxEvents
        /\ Changed("SensorChange", [World EXCEPT !.sensor = val],
                   [id |-> "sensor", val |-> val, ack |-> TRUE], running /\ subscribed)
        /\ steps' = steps + 1
        /\ UNCHANGED <<now, checked, inflight>>

NextReported == ReportedChange

SpecReported == InitReported /\ [][NextReported]_vars

(* --------------------- a channel without a price ----------------------- *)
\* no price and no HT/NT tariff, with and without fixed fees
UnpricedConfigs ==
    { [BaseConfig EXCEPT !.Preis = 0],
      [BaseConfig EXCEPT !.type = "gas", !.Preis = 0, !.Abschlag = 0] }

InitUnpriced ==
    \E c \in UnpricedConfigs : InitFrom(OnReady(FreshWorld(c, Num(FirstReading)), "ok"))

NextUnpriced == SensorChange \/ WriteAdjustment \/ Tick \/ SchedulerPass

SpecUnpriced == InitUnpriced /\ [][NextUnpriced]_vars

(* ------------------- first starts on other dates ----------------------- *)
\* 01.03.2025, 30.04.2025, 12.05.2025, 06.01.2026, 11.05.2026, 31.12.2027, 10:00 each
CalendarTimes ==
    {MkTime(2025, 2, 1, 600), MkTime(2025, 3, 30, 600), MkTime(2025, 4, 12, 600),
     MkTime(2026, 0, 6, 600), MkTime(2026, 4, 11, 600), MkTime(2027, 11, 31, 600)}

\* a contract start, none, and one that is not DD.MM.YYYY, each with fixed
\* fees and a pre-payment; an annual fee of 100.00 that does not divide by
\* 12, without and with HT/NT
CalendarConfigs ==
    { BaseConfig,
      [BaseConfig EXCEPT !.ContractStart = << >>],
      [BaseConfig EXCEPT !.type = "water", !.Preis = 20, !.ContractStart = <<12, 5>>],
      [BaseConfig EXCEPT !.Jahresgebuehr = 10000, !.Grundgebuehr = 995],
      [BaseConfig EXCEPT !.Jahresgebuehr = 10000, !.ContractStart = << >>,
                         !.HtNtEnabled = TRUE, !.HtPrice = 30, !.NtPrice = 20,
                         !.HtStart = 360, !.HtEnd = 1320] }

InitCalendar ==
    \E c \in CalendarConfigs, t \in CalendarTimes :
        InitFrom(OnReady([FreshWorld(c, Num(FirstReading)) EXCEPT !.now = t], "ok"))

NextCalendar == SensorChange \/ WriteAdjustment

SpecCalendar == InitCalendar /\ [][NextCalendar]_vars

(* --------------------- tariff windows and times of day ----------------- *)
\* 11.05.2026 at 00:00, 05:00, 06:00, 12:00, 21:59, 22:00 and 23:30
TariffTimes == {MkTime(2026, 4, 11, m) : m \in {0, 300, 360, 720, 1319, 1320, 1410}}

\* HT/NT with the window 06:00-22:00, 22:00-06:00, 06:00-06:00, without an
\* end time, and HT/NT disabled
TariffConfigs ==
    { [BaseConfig EXCEPT !.HtNtEnabled = TRUE, !.HtPrice = 30, !.NtPrice = 20,
                         !.HtStart = s, !.HtEnd = e] :
          <<s, e>> \in {<<360, 1320>>, <<1320, 360>>, <<360, 360>>, <<360, -1>>} }
    \cup {BaseConfig}

InitTariff ==
    \E c \in TariffConfigs, t \in TariffTimes :
        InitFrom(OnReady([FreshWorld(c, Num(FirstReading)) EXCEPT !.now = t], "ok"))

NextTariff == SensorChange

SpecTariff == InitTariff /\ [][NextTariff]_vars

(* ------------------------- history import alone ------------------------ *)
\* the readings a file may hold: 01.01.2025, 01.06.2025, 31.12.2025 23:00,
\* 01.03.2026
ImportPool ==
    { [timestamp |-> MkTime(2025, 0, 1, 0), value |-> 1000],
      [timestamp |-> MkTime(2025, 5, 1, 0), value |-> 9000],
      [timestamp |-> MkTime(2025, 11, 31, 1380), value |-> 4000],
      [timestamp |-> MkTime(2026, 2, 1, 0), value |-> 6000] }

MaxRecords == 3
MaxImports == 2

\* the parsed records of a file, in the order of the file
ImportFiles ==
    { f \in UNION {[1..n -> ImportPool] : n \in 1..MaxRecords} :
          \A i, j \in DOMAIN f : i # j => f[i] # f[j] }

\* the unit of the message: none, or the one of a custom meter
ImportUnits == {"", "m³"}

ImportConfigs ==
    { BaseConfig,
      [BaseConfig EXCEPT !.type = "gartenhaus"],
      [BaseConfig EXCEPT !.type = "water", !.Preis = 20],
      [BaseConfig EXCEPT !.type = "gas", !.Preis = 10, !.gasBrennwert = 100, !.gasZahl = 100],
      [BaseConfig EXCEPT !.type = "gas", !.Preis = 10, !.gasBrennwert = 115, !.gasZahl = 95],
      [BaseConfig EXCEPT !.type = "gas", !.Preis = 10, !.gasZahl = 95] }

InitImport == \E c \in ImportConfigs : InitFrom(OnReady(FreshWorld(c, Null), "ok"))

\* the import has ended with the stats it returns
Imported(records, customUnit, r) ==
    /\ Finish(r.w, FALSE)
    /\ ev' = [kind |-> "Import", id |-> cfg.type, val |-> Null, ack |-> FALSE,
              outcome |-> r.a.pc, records |-> records, customUnit |-> customUnit,
              yearsUpdated |-> r.a.loc.yearsUpdated, details |-> r.a.loc.details]

\* ImportManager.processRecords(utility, records, customUnit)
ImportData ==
    \E records \in ImportFiles, customUnit \in ImportUnits :
        /\ running /\ steps < MaxImports
        /\ Imported(records, customUnit,
                    Run([NewActivation("processRecords", "imp_enter", NoChange, "ok", records)
                             EXCEPT !.loc.customUnit = customUnit], World))
        /\ steps' = steps + 1
        /\ UNCHANGED <<now, checked, inflight>>

NextImport == ImportData

SpecImport == InitImport /\ [][NextImport]_vars

(* --------------------- manual adjustments and tariffs ------------------ *)
\* electricity and gas, each at a flat price and with HT/NT 06:00-22:00
AdjustmentConfigs ==
    { BaseConfig,
      [BaseConfig EXCEPT !.type = "gas", !.Preis = 10],
      [BaseConfig EXCEPT !.HtNtEnabled = TRUE, !.HtPrice = 30, !.NtPrice = 20,
                         !.HtStart = 360, !.HtEnd = 1320],
      [BaseConfig EXCEPT !.type = "gas", !.Preis = 10, !.HtNtEnabled = TRUE,
                         !.HtPrice = 12, !.NtPrice = 8, !.HtStart = 360, !.HtEnd = 1320] }

InitAdjustment ==
    \E c \in AdjustmentConfigs, s \in {Null, Num(FirstReading)} :
        InitFrom(OnReady(FreshWorld(c, s), "ok"))

\* the day of the first start goes on to 23:00, into the NT window
Evening ==
    /\ now = Times[1] /\ steps < MaxEvents
    /\ now' = MkTime(2026, 4, 11, 1380)
    /\ checked' = FALSE
    /\ ev' = Event("Tick", "none", Null, FALSE, "done")
    /\ steps' = steps + 1
    /\ UNCHANGED <<store, hist, cache, cfg, sensor, subscribed, running, inflight,
                   closes, sentBilling, sentChange, accrued, yearlyResets>>

NextAdjustment == SensorChange \/ WriteAdjustment \/ Evening

SpecAdjustment == InitAdjustment /\ [][NextAdjustment]_vars

(* ------------------ the interval timer under fairness ------------------ *)
\* one channel of each type that onStateChange serves
ScheduledConfigs ==
    { BaseConfig,
      [BaseConfig EXCEPT !.type = "gas", !.Preis = 10],
      [BaseConfig EXCEPT !.type = "water", !.Preis = 20],
      [BaseConfig EXCEPT !.type = "pv"] }

InitScheduled ==
    \E c \in ScheduledConfigs, s \in {Null, Num(FirstReading)} :
        InitFrom(OnReady(FreshWorld(c, s), "ok"))

\* the timer of setupPeriodicTasks fires every 60 s for as long as the
\* adapter runs: a pass of checkPeriodResets is always possible
IntervalPass ==
    \E sr \in SendResults(cfg) :
        /\ running
        /\ Ended("SchedulerPass", NoChange,
                 Run(NewActivation("checkPeriodResets", "cpr_enter", NoChange, sr, << >>), World))
        /\ checked' = TRUE
        /\ UNCHANGED <<now, inflight, steps>>

NextScheduled == Tick \/ IntervalPass \/ SensorChange
SpecScheduled == InitScheduled /\ [][NextScheduled]_vars /\ WF_vars(IntervalPass)

(* -------------------------- overlapping passes ------------------------- *)
\* the startup pass is not awaited and the timer's callback looks at no pass
\* in progress: a pass starts whether or not the pass before it has ended
TimerFires ==
    /\ running /\ steps < MaxEvents /\ Len(inflight) < MaxInflight
    /\ Began("SchedulerPass", NoChange,
             Settle([a |-> NewActivation("checkPeriodResets", "cpr_enter", NoChange, "ok", << >>),
                     w |-> World]))
    /\ checked' = TRUE
    /\ steps' = steps + 1
    /\ UNCHANGED now

NextOverlap == Tick \/ TimerFires \/ BeginSensorAlone \/ Resume
SpecOverlap == InitInflight /\ [][NextOverlap]_vars

(* ------------------------------ onMessage ------------------------------ *)
\* src/unnamed/part_000:181
ExportTypes == {"electricity", "gas", "water", "pv"}

\* src/unnamed/part_000:235-241
CurrentStates ==
    {"consumption.yearly", "costs.totalYearly", "consumption.monthly", "costs.monthly",
     "costs.balance"}

\* src/unnamed/part_000:94-99: the categories selected in the message and
\* active in the configuration
ExportCategories(message, c) == {type \in message.cats : c.Aktiv /\ c.type = type}

\* ExportManager.collectData(scope, categories): per category the history
\* states and the current states it reads
CollectData(scope, categories, w) ==
    [type \in categories |->
        [history |-> IF scope # "current" THEN {k \in HistKeys : w.hist[k] # Null} ELSE {},
         current |-> IF scope \in {"all", "current"}
                     THEN {k \in CurrentStates : w.store[k] # Null} ELSE {}]]

\* ExportManager.handleExportMessage(msg): the responses it sends with sendTo
\* and the data it has collected; it returns nothing.  failure is what goes
\* wrong: "parse" (msg.message is no JSON), "write" (writeFileAsync rejects)
HandleExportMessage(message, failure, w) ==
    LET data == CollectData(message.scope, ExportCategories(message, w.cfg), w)
        output == message.formatCSV \/ message.formatJSON
    IN  IF failure = "parse"
        THEN [sent |-> <<"error">>, returned |-> "undefined", data |-> << >>, lastExport |-> FALSE]
        ELSE IF output /\ failure = "write"
        THEN [sent |-> <<"error">>, returned |-> "undefined", data |-> data, lastExport |-> FALSE]
        ELSE [sent |-> <<"result">>, returned |-> "undefined", data |-> data, lastExport |-> output]

\* ImportManager.handleImportMessage(msg): what it returns; r is the run of
\* processRecords on the parsed records
HandleImportMessage(message, r) ==
    IF ~message.importerKnown THEN [returned |-> "error", w |-> r.w0]
    ELSE IF message.records = << >> THEN [returned |-> "error", w |-> r.w0]
    ELSE IF r.run.a.pc = "done" THEN [returned |-> "result", w |-> r.run.w]
    ELSE [returned |-> "error", w |-> r.run.w]

\* src/main.js:1448-1462: onMessage sends what the handler returned when
\* the message carries a callback
OnMessageResponses(message, sent, returned) ==
    sent \o (IF message.callback THEN <<returned>> ELSE << >>)

\* the message has been handled
Answered(message, failure, w, responses, data) ==
    /\ Finish(w, FALSE)
    /\ ev' = [kind |-> message.command, id |-> cfg.type, val |-> Null, ack |-> FALSE,
              outcome |-> "done", message |-> message, failure |-> failure,
              responses |-> responses, data |-> data]

MessageFiles ==
    { << >>,
      <<[timestamp |-> MkTime(2025, 0, 1, 0), value |-> 1000],
        [timestamp |-> MkTime(2025, 11, 31, 1380), value |-> 4000]>> }
ExportScopes == {"all", "current", "history"}
ExportSelections == {{}, {"gas"}, {"electricity", "water"}, ExportTypes}
ExportFailures == {"none", "parse", "write"}

ImportMessage ==
    \E records \in MessageFiles, known \in BOOLEAN, callback \in BOOLEAN :
        LET message == [command |-> "importData", callback |-> callback,
                        importerKnown |-> known, records |-> records]
            h == HandleImportMessage(message,
                     [w0 |-> World,
                      run |-> Run(NewActivation("processRecords", "imp_enter", NoChange, "ok",
                                                records), World)])
        IN  /\ running /\ steps < MaxImports
            /\ Answered(message, "none", h.w, OnMessageResponses(message, << >>, h.returned),
                        << >>)
            /\ steps' = steps + 1
            /\ UNCHANGED <<now, checked, inflight>>

ExportMessage ==
    \E csv \in BOOLEAN, json \in BOOLEAN, scope \in ExportScopes, cats \in ExportSelections,
       callback \in BOOLEAN, failure \in ExportFailures :
        LET message == [command |-> "exportData", callback |-> callback, formatCSV |-> csv,
                        formatJSON |-> json, scope |-> scope, cats |-> cats]
            h == HandleExportMessage(message, failure, World)
        IN  /\ running /\ steps < MaxImports
            /\ Answered(message, failure, World,
                        OnMessageResponses(message, h.sent, h.returned), h.data)
            /\ steps' = steps + 1
            /\ UNCHANGED <<now, checked, inflight>>

MessageConfigs ==
    { BaseConfig,
      [BaseConfig EXCEPT !.type = "gas", !.Preis = 10],
      [BaseConfig EXCEPT !.type = "water", !.Preis = 20],
      [BaseConfig EXCEPT !.type = "pv"] }

InitMessages ==
    \E c \in MessageConfigs : InitFrom(OnReady(FreshWorld(c, Num(FirstReading)), "ok"))

NextMessages == ImportMessage \/ ExportMessage
SpecMessages == InitMessages /\ [][NextMessages]_vars

(* ------------------------------- claims -------------------------------- *)
\* the step delivers a user's close command to onStateChange
CloseCommandStep ==
    /\ steps' = steps + 1
    /\ ev'.kind = "WriteClosePeriod" /\ ev'.val = Bool(TRUE) /\ ~ev'.ack
    /\ ev'.outcome # "none"

\* the last step delivered a user's close command
CloseCommandDelivered ==
    ev.kind = "WriteClosePeriod" /\ ev.val = Bool(TRUE) /\ ~ev.ack /\ ev.outcome # "none"

DateUnparsable(d) == Len(d) # 3 \/ \E i \in 1..Len(d) : d[i] = NaN

\* the end reading is missing or not positive, or the contract start is
\* missing or unparsable (neither is changed by a close)
ValidationFails ==
    \/ ~IsNum(store["billing.endReading"])
    \/ store["billing.endReading"].v <= 0
    \/ cfg.ContractStart = << >>
    \/ DateUnparsable(cfg.ContractStart)

ContractYear ==
    IF cfg.ContractStart[3] < 100 THEN 2000 + cfg.ContractStart[3] ELSE cfg.ContractStart[3]

\* C1: when closeBillingPeriod's validation fails, the close writes no
\* history, resets no total and no anchor; its only write is
\* billing.closePeriod := false
C1_AbortWritesOnlyFlag ==
    [][(CloseCommandStep /\ ValidationFails) =>
          /\ store' = [store EXCEPT !["billing.closePeriod"] = Bool(FALSE)]
          /\ hist' = hist
          /\ cache' = cache
          /\ closes' = closes
          /\ accrued' = accrued
          /\ ev'.outcome = "done"]_vars

\* a close command was refused although the end reading was entered and
\* a yearly total had accrued
C1_Witness ==
    /\ CloseCommandDelivered /\ ValidationFails
    /\ IsNum(store["consumption.yearly"]) /\ store["consumption.yearly"].v > 0
    /\ store["billing.endReading"] = Num(12000)
    /\ store["billing.closePeriod"] = Bool(FALSE)
    /\ \A k \in HistKeys : hist[k] = Null

ArchivedValue(k) == IF IsNum(store[k]) THEN store[k] ELSE Num(0)

SuccessfulCloseStep == CloseCommandStep /\ ~ValidationFails /\ ev'.outcome = "done"

ZeroAfterClose(k) == store'[k] = Null \/ store'[k] = Num(0)

\* C3: after a successful close all yearly consumption totals and yearly
\* cost totals are 0, with costs.yearlyHT/NT (HT/NT) and yearlyVolume (gas,
\* water), both notification flags are false and closePeriod is false
C3_YearlyTotalsZeroAfterClose ==
    [][SuccessfulCloseStep =>
          /\ \A k \in {"consumption.yearly", "costs.yearly", "costs.totalYearly",
                        "costs.basicCharge", "costs.annualFee", "costs.balance",
                        "costs.paidTotal"} : ZeroAfterClose(k)
          /\ cfg.HtNtEnabled =>
                \A k \in {"consumption.yearlyHT", "consumption.yearlyNT",
                          "costs.yearlyHT", "costs.yearlyNT"} : ZeroAfterClose(k)
          /\ cfg.type \in {"gas", "water"} => ZeroAfterClose("consumption.yearlyVolume")
          /\ store'["billing.notificationSent"] = Bool(FALSE)
          /\ store'["billing.notificationChangeSent"] = Bool(FALSE)
          /\ store'["billing.closePeriod"] = Bool(FALSE)]_vars

\* C4: a history value, once written, is never changed again
C4_HistoryNeverMutated ==
    [][\A k \in HistKeys : hist[k] # Null => hist'[k] = hist[k]]_vars

\* C5: a billing period is closed, and an archive written by a close, only
\* in the step that delivers a write of billing.closePeriod with value true
\* and ack false
C5_CloseOnlyOnCommand ==
    [][/\ closes' # closes => CloseCommandStep
       /\ (hist' # hist /\ ev'.kind \notin {"Import", "Start"}) => CloseCommandStep]_vars

\* an acknowledged write of true arrived with everything in place for a
\* close and no close happened
C5_Witness ==
    /\ ev.kind = "WriteClosePeriod" /\ ev.val = Bool(TRUE) /\ ev.ack /\ ev.outcome = "done"
    /\ ~ValidationFails
    /\ closes = 0
    /\ \A k \in HistKeys : hist[k] = Null

\* the step delivers a sensor value to onStateChange
SensorStep == steps' = steps + 1 /\ ev'.kind = "SensorChange" /\ ev'.outcome # "none"

\* the corrected reading of a raw sensor value: offset subtracted, gas
\* converted to kWh and rounded to 2 decimals
CorrectedReading(raw) ==
    IF cfg.type = "gas"
    THEN RoundToDecimals(ConvertGasM3ToKWh(Rat(raw - cfg.Offset, 1), cfg), 2)
    ELSE raw - cfg.Offset

TotalKeys ==
    {"consumption.daily", "consumption.monthly", "consumption.yearly",
     "consumption.dailyVolume", "consumption.monthlyVolume", "consumption.yearlyVolume"}

BucketKeys ==
    {"consumption.dailyHT", "consumption.dailyNT", "consumption.monthlyHT",
     "consumption.monthlyNT", "consumption.yearlyHT", "consumption.yearlyNT"}

\* the delivered raw value is one whose corrected reading the handler skips
SkippedReading ==
    /\ ev'.val.v - cfg.Offset >= 0
    /\ cache = Null \/ CorrectedReading(ev'.val.v) <= cache.v

\* C6: a first reading, or a reading not above the cached one, changes no
\* running total, makes the cache the corrected reading, still recomputes
\* the costs, and the handler completes without error
C6_SkipPathCompletes ==
    [][(SensorStep /\ SkippedReading) =>
          /\ \A k \in TotalKeys \cup BucketKeys : store'[k] = store[k]
          /\ ev'.outcome = "done"
          /\ cache' = Num(CorrectedReading(ev'.val.v))
          /\ (cfg.Preis # 0 /\ ~cfg.HtNtEnabled) =>
                store'["costs.daily"] =
                    Num(RoundMoney(Cost(Rat(store["consumption.daily"].v, 1), cfg.Preis)))]_vars

\* C6 without the completion: what the skip path does to totals and cache
\* whenever the handler does complete
C6_SkipPathWhenCompleting ==
    [][(SensorStep /\ SkippedReading /\ ev'.outcome = "done") =>
          /\ \A k \in TotalKeys \cup BucketKeys : store'[k] = store[k]
          /\ cache' = Num(CorrectedReading(ev'.val.v))
          /\ (cfg.Preis # 0 /\ ~cfg.HtNtEnabled) =>
                store'["costs.daily"] =
                    Num(RoundMoney(Cost(Rat(store["consumption.daily"].v, 1), cfg.Preis)))]_vars

\* a step that runs a reset: a scheduler pass, a start (with its immediate
\* pass and the deletion of a disabled channel) or a close command
ExplicitResetStep == ev'.kind \in {"SchedulerPass", "Start"} \/ CloseCommandStep

\* C7: no running total is ever negative, and none gets smaller except in
\* a step that runs a reset or a period close
C7_TotalsMonotonic ==
    [][\A k \in TotalKeys :
          (IsNum(store[k]) /\ IsNum(store'[k])) =>
              /\ store'[k].v >= 0
              /\ store'[k].v < store[k].v => ExplicitResetStep]_vars

\* the yearly total a baseline gives for the last raw reading, exact
BaselineYearly ==
    IF cfg.type = "gas"
    THEN ConvertGasM3ToKWh(Rat(sensor.v - cfg.Offset - cfg.InitialReading, 1), cfg)
    ELSE Rat(sensor.v - cfg.Offset - cfg.InitialReading, 1)

\* equal up to the rounding to 2 decimals
RoundsTo(q, x) == 2 * Abs(x * q.d - q.n) <= 10 * q.d

\* the channel is at rest: the adapter runs, has taken in the last sensor
\* value and its last handler has completed
Quiescent ==
    /\ running /\ subscribed /\ inflight = << >>
    /\ IsNum(sensor) /\ IsNum(store["consumption.yearly"])
    /\ ev.outcome \in {"done", "none"}

\* C8: at rest, consumption.yearly is (last raw reading - offset -
\* initialReading) x conversion factor with a baseline configured, and the
\* sum of the deltas applied since the last yearly reset without one
C8_YearlyReconciles ==
    Quiescent =>
        IF cfg.InitialReading > 0
        THEN RoundsTo(BaselineYearly, store["consumption.yearly"].v)
        ELSE store["consumption.yearly"].v = accrued

\* C8 in accumulation mode alone
C8_YearlyIsAccrued ==
    (Quiescent /\ cfg.InitialReading = 0) => store["consumption.yearly"].v = accrued

\* no handler is in flight and none has failed
AtRest == running /\ inflight = << >> /\ ev.outcome \in {"done", "none"}

\* C9: sensor updates of a channel take effect one after the other: with no
\* reset in between, daily and monthly hold every delta that was computed
C9_NoLostUpdate ==
    (AtRest /\ IsNum(store["consumption.daily"])) =>
        /\ store["consumption.daily"].v = accrued
        /\ store["consumption.monthly"].v = accrued

\* C10: a daily reset and a sensor update do not destroy each other's
\* writes: after the first reset of the month, the archived day and the
\* running day together are the month's total
C10_ResetKeepsDay ==
    (AtRest /\ now = Times[2] /\ IsNum(store["statistics.lastDay"])) =>
        store["statistics.lastDay"].v + store["consumption.daily"].v
            = store["consumption.monthly"].v

\* the step is a pass of the periodic timer that ran to its end
PassStep == steps' = steps + 1 /\ ev'.kind = "SchedulerPass" /\ ev'.outcome = "done"

\* the step is a restart of a channel that was initialized before: its only
\* yearly reset is that of the pass setupPeriodicTasks runs at once
RestartStep ==
    /\ steps' = steps + 1 /\ ev'.kind = "Start" /\ ev'.outcome = "done"
    /\ store["statistics.lastYearStart"].t = "num"

\* the step performed the automatic yearly reset
AutoResetInStep ==
    /\ Len(yearlyResets') = Len(yearlyResets) + 1
    /\ yearlyResets'[Len(yearlyResets')].by = "auto"

\* the (month, day) of time t is on or after that of the contract start
AnniversaryReached(t) ==
    LET d == DateOf(t)
    IN  \/ d.month + 1 > cfg.ContractStart[2]
        \/ d.month + 1 = cfg.ContractStart[2] /\ d.date >= cfg.ContractStart[1]

\* the condition under which a pass at the present time is to reset the
\* yearly counters
YearlyResetExpected ==
    LET lastYear == DateOf(store["statistics.lastYearStart"].v).year
    IN  IF cfg.ContractStart = << >> THEN DateOf(now).year # lastYear
        ELSE AnniversaryReached(now) /\ lastYear # DateOf(now).year

AutoResetsOfYear(resets, y) ==
    {i \in 1..Len(resets) : resets[i].by = "auto" /\ resets[i].year = y}

\* C11: a scheduler pass resets the yearly counters of an active channel
\* exactly when the anniversary's (month, day) is reached and lastYearStart
\* lies in another year (with no contract start: when the calendar year
\* differs from that of lastYearStart); the reset sets lastYearStart to now,
\* and no calendar year sees two automatic yearly resets
C11_YearlyResetIffDue ==
    [][(/\ PassStep \/ RestartStep
        /\ cfg'.Aktiv
        /\ cfg.ContractStart = << >> \/ ~DateUnparsable(cfg.ContractStart)) =>
          /\ AutoResetInStep <=> YearlyResetExpected
          /\ AutoResetInStep => store'["statistics.lastYearStart"] = Num(now)
          /\ \A y \in HistYears \cup {2027} :
                 Cardinality(AutoResetsOfYear(yearlyResets', y)) <= 1]_vars

\* a pass on the anniversary has reset the yearly counters of a channel
\* with a contract start, after consumption had accrued
C11_Witness ==
    /\ ev.kind = "SchedulerPass" /\ ev.outcome = "done"
    /\ cfg.ContractStart = <<12, 5, 2025>>
    /\ yearlyResets = <<YearlyReset("auto", Times[2])>>
    /\ store["statistics.lastYearStart"] = Num(now)
    /\ store["consumption.yearly"] = Num(0)
    /\ store["consumption.monthly"].v > 0

\* a restart in the next calendar year has reset the yearly counters of a
\* channel without a contract start
C11_WitnessCalendarYear ==
    /\ ev.kind = "Start" /\ ev.outcome = "done"
    /\ cfg.ContractStart = << >> /\ cfg.Aktiv
    /\ yearlyResets = <<YearlyReset("auto", Times[5])>>
    /\ store["statistics.lastYearStart"] = Num(now)

\* C12: the yearly counters are reset at most once in a calendar year,
\* whether by a period close or by the automatic reset of a pass
C12_OneYearlyResetPerYear ==
    \A i, j \in 1..Len(yearlyResets) :
        i < j => yearlyResets[i].year # yearlyResets[j].year

\* C13: the automatic yearly reset of a pass leaves at 0 the yearly counters
\* a period close resets (consumption.yearly, yearlyHT, yearlyNT,
\* yearlyVolume, costs.yearly, totalYearly, basicCharge, annualFee, balance,
\* paidTotal), clears both notification flags and writes no history
C13_AutoResetZeroesLikeClose ==
    [][(PassStep /\ AutoResetInStep) =>
          /\ \A k \in {"consumption.yearly", "costs.yearly", "costs.totalYearly",
                        "costs.basicCharge", "costs.annualFee", "costs.balance",
                        "costs.paidTotal"} : ZeroAfterClose(k)
          /\ cfg.HtNtEnabled =>
                \A k \in {"consumption.yearlyHT", "consumption.yearlyNT"} :
                    ZeroAfterClose(k)
          /\ cfg.type = "gas" => ZeroAfterClose("consumption.yearlyVolume")
          /\ store'["billing.notificationSent"] = Bool(FALSE)
          /\ store'["billing.notificationChangeSent"] = Bool(FALSE)
          /\ hist' = hist]_vars

\* the calendar day of the most recent contract anniversary on or before
\* time t; with no contract start, of the most recent 1 January
MostRecentAnniversary(t) ==
    IF cfg.ContractStart = << >>
    THEN [year |-> DateOf(t).year, month |-> 0, date |-> 1]
    ELSE [year  |-> IF AnniversaryReached(t) THEN DateOf(t).year ELSE DateOf(t).year - 1,
          month |-> cfg.ContractStart[2] - 1,
          date  |-> cfg.ContractStart[1]]

\* the adapter runs, its pass has run to its end at the present time, and
\* the channel is active with a usable contract start or none
YearAnchorSettled ==
    /\ running /\ checked /\ cfg.Aktiv
    /\ ev.kind \in {"Start", "SchedulerPass"} /\ ev.outcome = "done"
    /\ cfg.ContractStart = << >> \/ ~DateUnparsable(cfg.ContractStart)
    /\ store["statistics.lastYearStart"].t = "num"

\* C14: once the channel is initialized and the pass has run, lastYearStart
\* is a time on the day of the most recent contract anniversary on or
\* before now (with no contract start: on the most recent 1 January)
C14_LastYearStartIsAnniversary ==
    YearAnchorSettled =>
        LET d == DateOf(store["statistics.lastYearStart"].v)
        IN  [year |-> d.year, month |-> d.month, date |-> d.date]
                = MostRecentAnniversary(now)

\* the step moved the anchor k of a window to the present time
AnchorMovedInStep(k) == store'[k] = Num(now) /\ store[k] # Num(now)

\* C15: a pass resets the daily window exactly when the day number or the
\* month of now differs from that of lastDayStart, and the monthly window
\* exactly when the month or the year differs from that of lastMonthStart;
\* a reset leaves the window's total at 0 and its anchor at now
C15_WindowResetIffChanged ==
    [][(/\ PassStep \/ RestartStep
        /\ cfg'.Aktiv
        /\ store["statistics.lastDayStart"].t = "num"
        /\ store["statistics.lastMonthStart"].t = "num") =>
          LET nowDate   == DateOf(now)
              lastDay   == DateOf(store["statistics.lastDayStart"].v)
              lastMonth == DateOf(store["statistics.lastMonthStart"].v)
          IN  /\ AnchorMovedInStep("statistics.lastDayStart")
                    <=> (nowDate.date # lastDay.date \/ nowDate.month # lastDay.month)
              /\ AnchorMovedInStep("statistics.lastMonthStart")
                    <=> (nowDate.month # lastMonth.month \/ nowDate.year # lastMonth.year)
              /\ AnchorMovedInStep("statistics.lastDayStart")
                    => store'["consumption.daily"] = Num(0)
              /\ AnchorMovedInStep("statistics.lastMonthStart")
                    => store'["consumption.monthly"] = Num(0)]_vars

\* src/main.js:396-414, the yearly amount by subtraction of a baseline, for
\* the corrected reading in the channel's unit and, for gas, in m3
YearlyFromBaseline(c, consumption, consumptionM3, initialReading) ==
    IF c.type = "gas"
    THEN ConvertGasM3ToKWh(Rat(Max0(consumptionM3 - initialReading), 1), c)
    ELSE Rat(Max0(consumption - initialReading), 1)

\* C16: for a meter that never counts down, the yearly total accumulated
\* from the deltas (no initial reading configured, the count beginning at
\* 0) equals the one the subtraction of the initial reading gives; so the
\* total depends on the last reading alone, not on the readings in between
C16_AccumulationEqualsSubtraction ==
    (running /\ cfg.Aktiv /\ cfg.InitialReading = 0 /\ ev.outcome \in {"done", "none"}) =>
        NumOr0(store["consumption.yearly"]) =
            RoundToDecimals(YearlyFromBaseline(cfg, sensor.v - cfg.Offset,
                                               sensor.v - cfg.Offset,
                                               cfg.InitialReading), 2)

\* a change of the sensor state is delivered to onStateChange in this step
SensorDelivered ==
    steps' = steps + 1 /\ ev'.kind = "SensorChange" /\ running /\ subscribed

\* C17: whatever the sensor reports, the state-change handler completes:
\* no error escapes it, and the adapter goes on taking sensor events
C17_SensorErrorContained ==
    [][SensorDelivered => (ev'.outcome = "done" /\ running' /\ subscribed')]_vars

\* the value fails the input validation: not a number, negative, or for
\* gas a volume below the offset, which the conversion rejects
FailsValidation(val) ==
    \/ ~IsNum(val)
    \/ val.v < 0
    \/ cfg.type = "gas" /\ val.v - cfg.Offset < 0

\* C18: a sensor value that fails the input validation changes no state
\* of the channel and not the cached last reading
C18_InvalidValueChangesNothing ==
    [][(SensorDelivered /\ cfg.Aktiv /\ FailsValidation(ev'.val)) =>
          /\ store' = store
          /\ hist' = hist
          /\ ev'.outcome = "done" => cache' = cache]_vars

\* an adjustment is delivered: the handler stamps adjustment.applied and
\* calls updateCosts, nothing else
AdjustmentDelivered == steps' = steps + 1 /\ ev'.kind = "WriteAdjustment" /\ running

\* C19: with price 0 and HT/NT disabled updateCosts writes nothing: the
\* adjustment handler, which only stamps adjustment.applied and calls it,
\* leaves every other state and the history as they were
C19_NoPriceNoWrite ==
    [][(AdjustmentDelivered /\ cfg.Preis = 0 /\ ~cfg.HtNtEnabled) =>
          /\ ev'.outcome = "done"
          /\ \A k \in StateKeys \ {"adjustment.value", "adjustment.applied"} :
                 store'[k] = store[k]
          /\ hist' = hist]_vars

\* an adjustment was taken in by a channel without price that has fixed
\* fees and a yearly consumption
C19_Witness ==
    /\ ev.kind = "WriteAdjustment" /\ ev.outcome = "done" /\ running
    /\ cfg.Preis = 0 /\ ~cfg.HtNtEnabled /\ cfg.Grundgebuehr > 0
    /\ store["adjustment.applied"] = Num(now)
    /\ store["adjustment.value"] = ev.val
    /\ store["consumption.yearly"].v > 0

\* the step ran updateCosts to its end: a delivered adjustment, or a
\* delivered reading that passed the input validation
UpdateCostsRan ==
    /\ ev'.outcome = "done" /\ cfg.Aktiv /\ ~(cfg.Preis = 0 /\ ~cfg.HtNtEnabled)
    /\ \/ AdjustmentDelivered
       \/ SensorDelivered /\ IsNum(ev'.val) /\ ev'.val.v >= 0

\* the months begun since the contract start, or since lastYearStart when
\* there is no usable contract start, at least 1
MonthsElapsed ==
    LET from == IF cfg.ContractStart # << >> /\ ~DateUnparsable(cfg.ContractStart)
                THEN [year |-> cfg.ContractStart[3], month |-> cfg.ContractStart[2] - 1]
                ELSE DateOf(store["statistics.lastYearStart"].v)
        m == 12 * (DateOf(now).year - from.year) + (DateOf(now).month - from.month) + 1
    IN  IF m < 1 THEN 1 ELSE m

C20_WitnessShortfall ==
    /\ ev.kind = "SensorChange" /\ ev.outcome = "done" /\ running
    /\ cfg.Abschlag = 1000
    /\ store["costs.paidTotal"] = Num(13000)
    /\ store["costs.balance"].v > 0

\* the scenario: contract start 12.05.2025, evaluated on 06.01.2026
MonthsScenario ==
    cfg.ContractStart = <<12, 5, 2025>> /\ DateOf(now) = DateOf(MkTime(2026, 0, 6, 600))

\* C21: updateCosts counts max(1, 12 x (year - anchor year) + (month -
\* anchor month) + 1) months, the anchor being the contract start when one
\* is configured and lastYearStart otherwise: the pre-payments it writes
\* are that many; contract start 12.05.2025 on 06.01.2026 gives 9
C21_MonthsElapsed ==
    [][(UpdateCostsRan /\ cfg.Abschlag > 0) =>
          /\ MonthsElapsed >= 1
          /\ store'["costs.paidTotal"] = Num(cfg.Abschlag * MonthsElapsed)
          /\ MonthsScenario => store'["costs.paidTotal"] = Num(cfg.Abschlag * 9)]_vars

\* C21 as stated: the scenario gives 8 months
C21_MonthsElapsedAsStated ==
    [][(UpdateCostsRan /\ cfg.Abschlag > 0) =>
          /\ MonthsElapsed >= 1
          /\ store'["costs.paidTotal"] = Num(cfg.Abschlag * MonthsElapsed)
          /\ MonthsScenario => store'["costs.paidTotal"] = Num(cfg.Abschlag * 8)]_vars

\* a reading was taken in on 06.01.2026 by the channel of the scenario
C21_Witness ==
    /\ ev.kind = "SensorChange" /\ ev.outcome = "done" /\ running
    /\ MonthsScenario /\ cfg.Abschlag = 5000
    /\ store["costs.paidTotal"] = Num(45000)
    /\ store["consumption.daily"].v > 3000

\* a reading was taken in before the contract has started: one month
C21_WitnessBeforeStart ==
    /\ ev.kind = "SensorChange" /\ ev.outcome = "done" /\ running
    /\ cfg.ContractStart = <<12, 5, 2025>> /\ now = MkTime(2025, 2, 1, 600)
    /\ store["costs.paidTotal"] = Num(cfg.Abschlag)

\* the time of day t lies in the window from start to end, which wraps
\* past midnight when start > end
InWindow(t, start, end) ==
    IF start <= end THEN t >= start /\ t < end ELSE t >= start \/ t < end

\* the tariff the claim gives for the present time: HT or not
ExpectHT ==
    \/ ~cfg.HtNtEnabled
    \/ cfg.HtStart < 0 \/ cfg.HtEnd < 0
    \/ InWindow(DateOf(now).minutes, cfg.HtStart, cfg.HtEnd)

\* the step took in a reading above the cached one
PositiveDeltaStep ==
    /\ SensorDelivered /\ ev'.outcome = "done"
    /\ IsNum(cache) /\ IsNum(cache') /\ cache'.v > cache.v

\* the HT (NT) bucket of the day grew by the delta and the other did not
BucketGrew(suffix, other) ==
    /\ store'["consumption.daily" \o suffix]
          = Num(NumOr0(store["consumption.daily" \o suffix]) + (cache'.v - cache.v))
    /\ store'["consumption.daily" \o other] = store["consumption.daily" \o other]

\* C22: the tariff check gives HT exactly when the time of day lies in
\* [start, end), or for start > end in [start, 24:00) or [00:00, end), and
\* always when HT/NT is disabled or a window time is missing; a delta goes
\* to the bucket of that tariff; for 22:00-06:00 it is HT at 23:30 and
\* 05:00 and NT at 12:00
C22_TariffWindow ==
    [][/\ IsHTTime(cfg, DateOf(now).minutes) <=> ExpectHT
       /\ (PositiveDeltaStep /\ cfg.HtNtEnabled) =>
              IF ExpectHT THEN BucketGrew("HT", "NT") ELSE BucketGrew("NT", "HT")
       /\ (PositiveDeltaStep /\ cfg.HtStart = 1320 /\ cfg.HtEnd = 360) =>
              /\ DateOf(now).minutes \in {1410, 300} => BucketGrew("HT", "NT")
              /\ DateOf(now).minutes = 720 => BucketGrew("NT", "HT")]_vars

\* at 23:30 a delta went to the HT bucket of a channel with the window
\* 22:00-06:00
C22_Witness ==
    /\ ev.kind = "SensorChange" /\ ev.outcome = "done" /\ running
    /\ cfg.HtNtEnabled /\ cfg.HtStart = 1320 /\ cfg.HtEnd = 360
    /\ DateOf(now).minutes = 1410
    /\ store["consumption.dailyHT"].v > 3000
    /\ NumOr0(store["consumption.dailyNT"]) = 0

\* at 12:00 a delta went to the NT bucket of the same channel
C22_WitnessNT ==
    /\ ev.kind = "SensorChange" /\ ev.outcome = "done" /\ running
    /\ cfg.HtNtEnabled /\ cfg.HtStart = 1320 /\ cfg.HtEnd = 360
    /\ DateOf(now).minutes = 720
    /\ store["consumption.dailyNT"].v > 3000
    /\ NumOr0(store["consumption.dailyHT"]) = 0

\* the timer's pass ran in this step, to its end or not
PassRanStep == steps' = steps + 1 /\ ev'.kind = "SchedulerPass"

\* C23: whatever the messaging instance does with a send request, a pass
\* performs the resets that are due: the daily one when the day number has
\* changed, the monthly one when the month has, the yearly one as in C11
C23_PassResetsDespiteMessaging ==
    [][(PassRanStep /\ cfg.Aktiv) =>
          /\ (/\ store["statistics.lastDayStart"].t = "num"
              /\ DateOf(now).date # DateOf(store["statistics.lastDayStart"].v).date)
                => store'["statistics.lastDayStart"] = Num(now)
          /\ (/\ store["statistics.lastMonthStart"].t = "num"
              /\ DateOf(now).month # DateOf(store["statistics.lastMonthStart"].v).month)
                => store'["statistics.lastMonthStart"] = Num(now)
          /\ (/\ store["statistics.lastYearStart"].t = "num"
              /\ cfg.ContractStart = << >> \/ ~DateUnparsable(cfg.ContractStart)
              /\ YearlyResetExpected)
                => store'["statistics.lastYearStart"] = Num(now)]_vars

\* C24: onUnload stops the timer, so that no pass starts once it has run,
\* changes no state and drops no handler in flight, and calls back; the
\* handlers in flight then go on with their writes
C24_UnloadStopsTimerOnly ==
    [][/\ (steps' = steps + 1 /\ ev'.kind = "Unload") =>
              /\ ~running' /\ ev'.outcome = "done"
              /\ store' = store /\ hist' = hist /\ inflight' = inflight
       /\ ~running =>
              /\ ~running'
              /\ ev'.kind # "SchedulerPass"
              /\ Cardinality(PassHandlers') <= Cardinality(PassHandlers)
       /\ (~running /\ inflight # << >> /\ ev'.kind = "Resume") =>
              /\ ev'.outcome \in {"pending", "done"}
              /\ inflight' # inflight]_vars

\* the pass in flight at the unload has completed its daily reset
C24_Witness ==
    /\ ~running /\ ev.kind = "Resume" /\ ev.id = "checkPeriodResets" /\ ev.outcome = "done"
    /\ now = Times[2]
    /\ store["statistics.lastDayStart"] = Num(now)
    /\ inflight = << >>

\* an import has just run to its end
ImportDone == ev.kind = "Import" /\ ev.outcome = "done"

\* the records of the imported file that lie in year y
ImportedOfYear(y) ==
    {ev.records[i] : i \in {j \in DOMAIN ev.records :
                                 DateOf(ev.records[j].timestamp).year = y}}

\* latest reading of year y less its earliest one, never below 0
FirstLastDifference(y) ==
    LET R == ImportedOfYear(y)
        first == CHOOSE r \in R : \A q \in R : r.timestamp <= q.timestamp
        last == CHOOSE r \in R : \A q \in R : q.timestamp <= r.timestamp
    IN  Max0(last.value - first.value)

\* gasBrennwert x gasZahl in 1/1000, a factor that is not set counting as 1
GasFactorOr1(c) ==
    (IF c.gasBrennwert # 0 THEN c.gasBrennwert ELSE 10)
        * (IF c.gasZahl # 0 THEN c.gasZahl ELSE 100)

\* gasBrennwert x gasZahl in 1/1000, as configured
GasFactorAsSet(c) == c.gasBrennwert * c.gasZahl

ImportedWithFactor(factor) ==
    ImportDone =>
        \A y \in HistYears :
            ImportedOfYear(y) # {} =>
                LET d == FirstLastDifference(y)
                    kWh == IF cfg.type = "gas" THEN (d * factor) \div 1000 ELSE d
                IN  /\ hist[<<y, "yearly">>] = Num(kWh)
                    /\ cfg.type = "gas" => hist[<<y, "yearlyVolume">>] = Num(d)
                    /\ \E i \in DOMAIN ev.yearsUpdated : ev.yearsUpdated[i] = y
                    /\ \E i \in DOMAIN ev.details :
                           /\ ev.details[i].year = y
                           /\ ev.details[i].consumption = kWh
                           /\ cfg.type = "gas" => ev.details[i].unit = "kWh"
                           /\ cfg.type = "water" => ev.details[i].unit = "m³"
                           /\ (cfg.type # "water" /\ ev.customUnit = "")
                                  => ev.details[i].unit = "kWh"
                           /\ (cfg.type = "gartenhaus" /\ ev.customUnit # "")
                                  => ev.details[i].unit = ev.customUnit

C25_WitnessCustom ==
    /\ ev.kind = "Import" /\ ev.outcome = "done" /\ steps = 2
    /\ cfg.type = "gartenhaus" /\ ev.customUnit = "m³"
    /\ ev.yearsUpdated = <<2025, 2026>>
    /\ Len(ev.records) = 3
    /\ ev.records[1].value = 4000 /\ ev.records[2].value = 9000
    /\ ev.details = <<[year |-> 2025, consumption |-> 0, unit |-> "m³"],
                      [year |-> 2026, consumption |-> 0, unit |-> "m³"]>>
    /\ hist[<<2025, "yearly">>] = Num(0)

\* a sensor value whose corrected reading lies above the cached one has been
\* handled in this step
ReadingAboveCache ==
    /\ SensorDelivered /\ cfg.Aktiv /\ ev'.outcome = "done"
    /\ IsNum(cache) /\ ~FailsValidation(ev'.val)
    /\ CorrectedReading(ev'.val.v) > cache.v

\* the total grew by the difference of the corrected reading to the cache
GrewByDelta(key) ==
    store'[key] = Num(RoundToDecimals(Rat(NumOr0(store[key])
                                          + (CorrectedReading(ev'.val.v) - cache.v), 1), 2))

C26_WitnessGas ==
    /\ ev.kind = "SensorChange" /\ ev.outcome = "done" /\ ev.val = Num(10000)
    /\ cfg.type = "gas" /\ cfg.InitialReading = 0 /\ cfg.gasBrennwert = 100
    /\ cache = Num(100000)
    /\ store["consumption.daily"] = Num(100000)

\* C27: after a sensor update with a positive delta the yearly total is,
\* with an initial reading configured, the corrected reading less the
\* initial reading and never below 0 (for gas taken in m³, then converted),
\* whatever it was before; without one, it is the previous value plus the
\* delta
C27_YearlyByBaselineOrDelta ==
    [][ReadingAboveCache =>
          IF cfg.InitialReading > 0
          THEN store'["consumption.yearly"] =
                   Num(RoundToDecimals(
                           YearlyFromBaseline(cfg, ev'.val.v - cfg.Offset,
                                              ev'.val.v - cfg.Offset, cfg.InitialReading), 2))
          ELSE GrewByDelta("consumption.yearly")]_vars

\* baseline 2, offset 1, the sensor at 10: a yearly total of 7 beside a
\* daily total of 9
C27_Witness ==
    /\ ev.kind = "SensorChange" /\ ev.outcome = "done" /\ ev.val = Num(10000)
    /\ cfg.type = "electricity" /\ cfg.InitialReading = 2000 /\ cfg.Offset = 1000
    /\ store["consumption.daily"] = Num(9000)
    /\ store["consumption.yearly"] = Num(7000)

\* gas with baseline 2 m³, the sensor at 10 m³: 8 m³, 87.4 kWh
C27_WitnessGas ==
    /\ ev.kind = "SensorChange" /\ ev.outcome = "done" /\ ev.val = Num(10000)
    /\ cfg.type = "gas" /\ cfg.InitialReading = 2000
    /\ store["consumption.yearlyVolume"] = Num(8000)
    /\ store["consumption.yearly"] = Num(87400)

\* no baseline: the yearly total of 3 grows by the delta of 7
C27_WitnessAccumulated ==
    /\ ev.kind = "SensorChange" /\ ev.outcome = "done" /\ ev.val = Num(10000)
    /\ cfg.type = "electricity" /\ cfg.InitialReading = 0 /\ ~cfg.HtNtEnabled
    /\ steps = 1
    /\ store["consumption.yearly"] = Num(10000)

\* the adapter has started in this step with the channel active, its sensor
\* holding a valid reading, and no period reset due
StartedWithReading ==
    /\ steps' = steps + 1 /\ ev'.kind = "Start" /\ ev'.outcome = "done"
    /\ cfg'.Aktiv /\ cfg'.SensorDP /\ checked
    /\ ~FailsValidation(sensor)

\* the reading the sensor holds lies above the persisted one
DowntimeConsumption ==
    /\ IsNum(store["info.meterReading"])
    /\ CorrectedReading(sensor.v) > store["info.meterReading"].v

\* the total grew by the difference of the reading to the persisted one
GrewByDowntime(key) ==
    store'[key] = Num(RoundToDecimals(
                          Rat(NumOr0(store[key]) + (CorrectedReading(sensor.v)
                                                    - store["info.meterReading"].v), 1), 2))

\* a restart adds what was consumed while the adapter was down
RestartAddsDowntime ==
    (StartedWithReading /\ DowntimeConsumption) =>
        /\ GrewByDowntime("consumption.daily")
        /\ GrewByDowntime("consumption.monthly")
        /\ cache' = Num(CorrectedReading(sensor.v))

\* a start of a channel no reading was ever persisted for takes the reading
\* into the cache and counts nothing
FirstReadingOnlySeeds ==
    (StartedWithReading /\ store["info.meterReading"] = Null) =>
        /\ NumOr0(store'["consumption.daily"]) = 0
        /\ NumOr0(store'["consumption.monthly"]) = 0
        /\ cache' = Num(CorrectedReading(sensor.v))

\* C28: a start takes the cached last value from the persisted meter
\* reading, so that a reading above it adds the difference to the daily and
\* the monthly total; where no reading was persisted, the first reading
\* only seeds the cache and changes no total
C28_RestartKeepsDowntime == [][RestartAddsDowntime /\ FirstReadingOnlySeeds]_vars

\* C28 for the restart of a channel that has a persisted reading
C28_RestartWithPersistedReading == [][RestartAddsDowntime]_vars

\* the sensor went from 3 to 10 while the adapter was down: the restart
\* counts the 7
C28_Witness ==
    /\ ev.kind = "Start" /\ ev.outcome = "done" /\ cfg.Aktiv
    /\ cfg.type = "electricity" /\ cfg.Offset = 0
    /\ sensor = Num(10000) /\ cache = Num(10000)
    /\ store["consumption.daily"] = Num(10000)
    /\ accrued = 10000

\* n/d rounded to the nearest whole number, halves upwards
HalfUp(n, d) == (2 * n + d) \div (2 * d)

\* the fraction n/d in lowest terms
Frac(n, d) == <<n \div GCD(Abs(n), d), d \div GCD(Abs(n), d)>>

\* the cost in cent of q thousandths of a unit at a price in cent a unit
CentOf(q, price) == HalfUp(q[1] * price, q[2] * 1000)

\* the cost in cent of two such quantities, each at its price
CentOfBoth(qHT, qNT) ==
    HalfUp(qHT[1] * cfg.HtPrice * qNT[2] + qNT[1] * cfg.NtPrice * qHT[2],
           qHT[2] * qNT[2] * 1000)

\* a total of the channel once the step is over, as a fraction
TotalAfter(key) == <<NumOr0(store'["consumption." \o key]), 1>>

\* the yearly quantity that is charged: the yearly total (of the HT bucket,
\* for suffix "HT") with the manual adjustment folded in, which for gas is
\* in m³
YearlyCharged(suffix) ==
    LET adj == NumOr0(store'["adjustment.value"])
        factor == Brennwert(cfg) * ZZahl(cfg)
        total == NumOr0(store'["consumption.yearly" \o suffix])
    IN  IF adj = 0 THEN <<total, 1>>
        ELSE IF cfg.type # "gas" THEN <<total + adj, 1>>
        ELSE IF suffix = "HT" THEN Frac(total * 1000 + adj * factor, 1000)
        ELSE Frac((NumOr0(store'["consumption.yearlyVolume"]) + adj) * factor, 1000)

CostsByTariff ==
    /\ store'["costs.daily"] = Num(CentOfBoth(TotalAfter("dailyHT"), TotalAfter("dailyNT")))
    /\ store'["costs.monthly"]
          = Num(CentOfBoth(TotalAfter("monthlyHT"), TotalAfter("monthlyNT")))
    /\ store'["costs.yearly"] = Num(CentOfBoth(YearlyCharged("HT"), TotalAfter("yearlyNT")))
    /\ store'["costs.dailyHT"] = Num(CentOf(TotalAfter("dailyHT"), cfg.HtPrice))
    /\ store'["costs.dailyNT"] = Num(CentOf(TotalAfter("dailyNT"), cfg.NtPrice))
    /\ store'["costs.monthlyHT"] = Num(CentOf(TotalAfter("monthlyHT"), cfg.HtPrice))
    /\ store'["costs.monthlyNT"] = Num(CentOf(TotalAfter("monthlyNT"), cfg.NtPrice))
    /\ store'["costs.yearlyHT"] = Num(CentOf(YearlyCharged("HT"), cfg.HtPrice))
    /\ store'["costs.yearlyNT"] = Num(CentOf(TotalAfter("yearlyNT"), cfg.NtPrice))

CostsByFlatPrice ==
    /\ store'["costs.daily"] = Num(CentOf(TotalAfter("daily"), cfg.Preis))
    /\ store'["costs.monthly"] = Num(CentOf(TotalAfter("monthly"), cfg.Preis))
    /\ store'["costs.yearly"] = Num(CentOf(YearlyCharged(""), cfg.Preis))

C29_WitnessFlat ==
    /\ ev.kind = "SensorChange" /\ ev.outcome = "done" /\ ~cfg.HtNtEnabled
    /\ cfg.type = "gas" /\ cfg.Preis = 10
    /\ store["consumption.daily"] = Num(32780)
    /\ store["costs.daily"] = Num(328)

\* the yearly consumption cost in cent before rounding, as a fraction
YearlyCostCharged ==
    LET qHT == YearlyCharged("HT")
        qNT == TotalAfter("yearlyNT")
        q == YearlyCharged("")
    IN  IF cfg.HtNtEnabled
        THEN Frac(qHT[1] * cfg.HtPrice * qNT[2] + qNT[1] * cfg.NtPrice * qHT[2],
                  qHT[2] * qNT[2] * 1000)
        ELSE Frac(q[1] * cfg.Preis, q[2] * 1000)

\* twelve times the fixed costs accrued in cent: the monthly basic charge
\* and a twelfth of the annual fee for every month elapsed
FixedCostsTimes12 == (12 * cfg.Grundgebuehr + cfg.Jahresgebuehr) * MonthsElapsed

C30_WitnessRounded ==
    /\ ev.kind = "SensorChange" /\ ev.outcome = "done"
    /\ cfg.Jahresgebuehr = 10000 /\ cfg.HtNtEnabled
    /\ store["costs.annualFee"] = Num(833)
    /\ store["costs.basicCharge"] = Num(1833)

\* C31: with HT/NT, a manual adjustment other than 0 goes into the HT
\* bucket alone when the costs are computed: the yearly cost is (yearlyHT +
\* adjustment) x HT price + yearlyNT x NT price, the adjustment of a gas
\* channel being converted from m³ to kWh first, and the NT cost is what it
\* is with adjustment 0
C31_AdjustmentIntoHT ==
    [][(UpdateCostsRan /\ cfg.HtNtEnabled /\ NumOr0(store'["adjustment.value"]) # 0) =>
          LET adj == store'["adjustment.value"].v
              yearlyHT == NumOr0(store'["consumption.yearlyHT"])
              yearlyNT == NumOr0(store'["consumption.yearlyNT"])
              folded == IF cfg.type = "gas"
                        THEN Frac(yearlyHT * 1000 + adj * Brennwert(cfg) * ZZahl(cfg), 1000)
                        ELSE <<yearlyHT + adj, 1>>
          IN  /\ store'["costs.yearly"] = Num(CentOfBoth(folded, <<yearlyNT, 1>>))
              /\ store'["costs.yearlyHT"] = Num(CentOf(folded, cfg.HtPrice))
              /\ store'["costs.yearlyNT"] = Num(CentOf(<<yearlyNT, 1>>, cfg.NtPrice))]_vars

\* 3 kWh in HT and 7 kWh in NT with an adjustment of 2: 5 at 0.30 and 7 at
\* 0.20
C31_Witness ==
    /\ ev.kind = "WriteAdjustment" /\ ev.outcome = "done" /\ cfg.HtNtEnabled
    /\ cfg.type = "electricity"
    /\ store["adjustment.value"] = Num(2000)
    /\ store["consumption.yearlyHT"] = Num(3000) /\ store["consumption.yearlyNT"] = Num(7000)
    /\ store["costs.yearlyHT"] = Num(150) /\ store["costs.yearlyNT"] = Num(140)
    /\ store["costs.yearly"] = Num(290)

\* gas with 32.78 kWh in HT and an adjustment of 2 m³, 21.85 kWh: 54.63 kWh
\* at 0.12
C31_WitnessGas ==
    /\ ev.kind = "WriteAdjustment" /\ ev.outcome = "done" /\ cfg.HtNtEnabled
    /\ cfg.type = "gas"
    /\ store["adjustment.value"] = Num(2000)
    /\ store["consumption.yearlyHT"] = Num(32780) /\ store["consumption.yearlyNT"] = Num(0)
    /\ store["costs.yearlyHT"] = Num(656)
    /\ store["costs.yearly"] = Num(656)

\* C32: a cost recompute writes no consumption state and leaves
\* adjustment.value as the user wrote it: the handler of an adjustment,
\* which stamps adjustment.applied and calls updateCosts, ends with every
\* total, volume and HT/NT bucket as before, whatever the adjustment and
\* whether updateCosts runs to its end or not
C32_AdjustmentLeavesTotals ==
    [][AdjustmentDelivered =>
          /\ \A k \in TotalKeys \cup BucketKeys : store'[k] = store[k]
          /\ store'["adjustment.value"] = ev'.val
          /\ hist' = hist]_vars

\* an adjustment of 2 has changed the yearly cost of a channel with 3 kWh
\* from 0.90 to 1.50, and the yearly total is 3 still
C32_Witness ==
    /\ ev.kind = "WriteAdjustment" /\ ev.outcome = "done" /\ ev.val = Num(2000)
    /\ cfg.type = "electricity" /\ ~cfg.HtNtEnabled /\ cfg.Preis = 30
    /\ store["consumption.yearly"] = Num(3000)
    /\ store["adjustment.value"] = Num(2000)
    /\ store["costs.yearly"] = Num(150)

\* C33: updateCosts runs to its end and writes the costs for every
\* adjustment, also a negative one beyond the yearly total and a negative
\* one of a gas channel with HT/NT
C33_AdjustmentNeverFails ==
    [][(AdjustmentDelivered /\ cfg.Aktiv /\ ~NoPriceConfigured(cfg)) =>
          /\ ev'.outcome = "done"
          /\ IF cfg.HtNtEnabled THEN CostsByTariff ELSE CostsByFlatPrice]_vars

\* the calendar day, month or year of the clock is past the one of the
\* window's start
BoundaryPassed(key) ==
    LET last == store[key]
    IN  /\ running /\ cfg.Aktiv
        /\ IsNum(last)
        /\ CASE key = "statistics.lastDayStart" ->
                    now \div MinutesPerDay > last.v \div MinutesPerDay
              [] key = "statistics.lastMonthStart" ->
                    <<DateOf(now).year, DateOf(now).month>>
                        # <<DateOf(last.v).year, DateOf(last.v).month>>
              [] key = "statistics.lastYearStart" ->
                    YearlyResetDue(now, last.v, cfg.ContractStart)

WindowKeys == {"statistics.lastDayStart", "statistics.lastMonthStart", "statistics.lastYearStart"}

C34_PassResetsListedChannels ==
    (ev.kind = "SchedulerPass" /\ ev.outcome = "done" /\ checked /\ cfg.type \in PassTypes)
        => \A key \in WindowKeys : ~BoundaryPassed(key)

\* the step completes the awaited call at pc of the oldest waiting handler
ResumedAt(pc) ==
    /\ inflight # << >> /\ Head(inflight).pc = pc
    /\ ev'.kind = "Resume" /\ steps' = steps

\* C35: one pass of the scheduler at a time, so that no boundary is reset
\* twice: a daily reset saves the last day only when the day has not been
\* reset yet, never the total an earlier reset of the same day has zeroed
C35_NoSecondReset ==
    [][ResumedAt("rdc_wLastDay") =>
          DailyResetDue(now, store["statistics.lastDayStart"].v)]_vars

\* no pass starts while another one is in progress
C35_OnePassAtATime == Cardinality(PassHandlers) <= 1

\* two passes have reset the same day: the day's total was saved and then
\* replaced by the zero the first reset left
C35_LastDayOverwritten ==
    /\ inflight = << >> /\ ev.kind = "Resume"
    /\ NumOr0(store["consumption.yearly"]) > 0
    /\ store["statistics.lastDay"] = Num(0)
    /\ store["statistics.lastDayStart"] = Num(now)
ReminderTypes == {"billing", "change"}
SentFlag(type) ==
    IF type = "billing" THEN "billing.notificationSent" ELSE "billing.notificationChangeSent"
\* a yearly reset or a period close has happened in the step
FlagClearedInStep == Len(yearlyResets') = Len(yearlyResets) + 1

\* the reminders of the type delivered so far, before and after the step
RemindersSent(type) ==
    IF type = "billing"
    THEN [before |-> sentBilling, after |-> sentBilling']
    ELSE [before |-> sentChange, after |-> sentChange']

\* what a step does to the reminders of a type
ReminderRule(type) ==
    LET sent == RemindersSent(type)
        flag == store[SentFlag(type)]
        flagAfter == store'[SentFlag(type)]
    IN  /\ sent.after # sent.before =>
              /\ sent.after = sent.before + 1
              /\ flag # Bool(TRUE)
              /\ flagAfter = Bool(TRUE) \/ FlagClearedInStep
        /\ (flag = Bool(TRUE) /\ flagAfter # Bool(TRUE)) => FlagClearedInStep
        /\ (sent.after = sent.before /\ flag # Bool(TRUE)) => flagAfter # Bool(TRUE)

\* C36: once a reminder of a type has been delivered, no further one of the
\* type goes out until a yearly reset or a period close has cleared its
\* sent-flag: the reminders of a type are at most one more than the clears
C36_NoSecondReminder ==
    /\ sentBilling <= Len(yearlyResets) + 1
    /\ sentChange <= Len(yearlyResets) + 1

\* with the passes one after the other and the channel configured as it is:
\* a reminder goes out only while its flag is not true and sets the flag, the
\* flag stays true until a reset or close, a pass that sends nothing leaves
\* the flag as it was
C36_ReminderRuleSequential ==
    [][(cfg.Aktiv /\ cfg' = cfg) => \A type \in ReminderTypes : ReminderRule(type)]_vars

\* the window total is the sum of its HT and NT bucket
SplitOf(window) ==
    NumOr0(store["consumption." \o window])
        = NumOr0(store["consumption." \o window \o "HT"])
            + NumOr0(store["consumption." \o window \o "NT"])

\* C37: with HT/NT enabled the buckets split the window total: in every
\* quiescent state daily = dailyHT + dailyNT and monthly = monthlyHT +
\* monthlyNT, across sensor updates and the resets of the scheduler
C37_BucketsSplitTotals ==
    (Quiescent /\ cfg.HtNtEnabled) => (SplitOf("daily") /\ SplitOf("monthly"))

\* the same as long as no window has been reset: the day and the month of
\* the first start are not over
C37_BucketsSplitBeforeReset ==
    (Quiescent /\ cfg.HtNtEnabled /\ now = Times[1]) => (SplitOf("daily") /\ SplitOf("monthly"))

\* a positive delta goes to exactly one bucket of the day
C37_DeltaIntoOneBucket ==
    [][(PositiveDeltaStep /\ cfg.HtNtEnabled /\ cfg' = cfg) =>
          BucketGrew("HT", "NT") \/ BucketGrew("NT", "HT")]_vars
\* C38: once a period close or an automatic yearly reset has set the yearly
\* total to 0, consumption.yearly at rest is the consumption accrued since
\* that reset, with a baseline configured as well as without one
C38_YearlyOnlySinceReset ==
    (Quiescent /\ yearlyResets # << >>) => store["consumption.yearly"].v = accrued

\* the same in accumulation mode alone
C38_AccumulatedOnlySinceReset ==
    (Quiescent /\ yearlyResets # << >> /\ cfg.InitialReading = 0)
        => store["consumption.yearly"].v = accrued
MessageHandled == ev.kind \in {"importData", "exportData"}

\* C39: an importData or exportData message with a callback gets exactly
\* one response, a result or an error value
C39_OneResponse ==
    (MessageHandled /\ ev.message.callback) =>
        /\ Len(ev.responses) = 1
        /\ ev.responses[1] \in {"result", "error"}

\* the same for importData alone: one response, an error value when the
\* importer is unknown or the file holds no record, else a result
C39_ImportOneResponse ==
    (ev.kind = "importData" /\ ev.message.callback) =>
        ev.responses = <<IF ev.message.importerKnown /\ ev.message.records # << >>
                         THEN "result" ELSE "error">>

\* an export collects the categories that are selected and active, and no
\* history with scope 'current'
C39_ExportCollects ==
    (ev.kind = "exportData" /\ ev.failure # "parse") =>
        /\ DOMAIN ev.data = {type \in ev.message.cats : cfg.Aktiv /\ cfg.type = type}
        /\ ev.message.scope = "current" => \A type \in DOMAIN ev.data : ev.data[type].history = {}

\* an export of everything after an import: history is there to collect
C39_WitnessExport ==
    /\ ev.kind = "exportData" /\ ev.message.callback /\ ev.message.scope = "all"
    /\ ev.failure = "none" /\ ev.message.formatCSV
    /\ \E type \in DOMAIN ev.data : ev.data[type].history # {}
====
